---- MODULE Spec2Model ----
(***************************************************************************)
(* A model of felund-core's peer-to-peer synchronisation engine            *)
(* (src/chat/felundchat): the authenticated handshake, the pull-based      *)
(* anti-entropy exchange, the merge of peers and messages under the        *)
(* node-wide asyncio lock, the control-event bus, the TUI collaborator     *)
(* and the anchor store.                                                   *)
(*                                                                         *)
(* Python dicts are functions with a growing domain; state.messages and    *)
(* the anchor store, whose iteration order the code relies on, are         *)
(* sequences in insertion order.  HMAC and AES-GCM are modelled as         *)
(* injective, unforgeable constructors: a MAC or token is the tuple of the *)
(* key and the fields it was computed over.                                *)
(***************************************************************************)
EXTENDS Integers, Sequences, FiniteSets, TLC

\* ------------------------------------------------------------------ bounds

\* Hosts' clocks run from 0 to MaxClock (time.time(), one unit per tick).
MaxClock == 2
\* Connections opened in one behaviour.
MaxConns == 3
\* Connections open at the same time.
MaxOpen == 2
\* Messages posted locally in one behaviour (msg ids 1..MaxMsgs).
MaxMsgs == 3
\* Bursts of frames the host without the secret writes on one connection.
MaxAdvFrames == 7

\* ------------------------------------------------- program constants (scaled)

\* config.MESSAGE_MAX_AGE_S (30 days), in clock ticks.
MESSAGE_MAX_AGE_S == 1
\* config.MAX_MESSAGES_PER_CIRCLE (1000).
MAX_MESSAGES_PER_CIRCLE == 2
\* anchor.ANCHOR_MAX_AGE_S (24 h), in clock ticks.
ANCHOR_MAX_AGE_S == 1
\* anchor.ANCHOR_MAX_MSGS (500).
ANCHOR_MAX_MSGS == 2
\* anchor.ANCHOR_MAX_BYTES (50 MiB), in units of one serialised envelope.
ANCHOR_MAX_BYTES == 3
\* The 50 most recent messages _anchor_push_pull pushes.
ANCHOR_PUSH_RECENT == 2
\* The 200 envelopes _anchor_serve returns at most (fewer than the
\* ANCHOR_MAX_MSGS a store may hold, as 200 is fewer than 500).
ANCHOR_PULL_LIMIT == 1

\* -------------------------------------------------------------- dictionaries

EmptyDict == [k \in {} |-> 0]

Put(f, k, v) == [x \in (DOMAIN f) \cup {k} |-> IF x = k THEN v ELSE f[x]]

Del(f, k) == [x \in (DOMAIN f) \ {k} |-> f[x]]

\* dict.get(k, default)
Get(f, k, default) == IF k \in DOMAIN f THEN f[k] ELSE default

\* dict.setdefault(k, v), as the resulting dict
SetDefault(f, k, v) == IF k \in DOMAIN f THEN f ELSE Put(f, k, v)

Range(s) == {s[i] : i \in DOMAIN s}

\* ------------------------------------------------------------------ identities

Nodes == {"n1", "n2", "n3"}

\* A host that runs other software than this program.
ADV == "adv"

\* The lock holder when the lock is free; a task is <<connection, side>>.
NoTask == <<>>

\* Circle.circle_id = sha256(secret)[:24]: a function of the secret.
CircleIdOf(secret_hex) ==
    CASE secret_hex = "s1" -> "c1"
      [] secret_hex = "s2" -> "c2"
      [] OTHER -> "cx"

CONTROL_CHANNEL_ID == "__control"

\* str[:40] on the display names of the model: one name is longer than 40.
Trunc40(name) == IF name = "long41" THEN "long40" ELSE name

\* str.strip().lower() on the channel ids of the model.
Lower(channel_id) == IF channel_id = "Plan" THEN "plan" ELSE channel_id

\* ---------------------------------------------------------------------- crypto

make_token(secret_hex, node_id, circle_id, nonce) ==
    <<secret_hex, node_id, circle_id, nonce>>

\* A verify_token that forgets the nonce: any token of this node and circle
\* under the secret passes, whichever connection it was issued for.
verify_token_replay(secret_hex, node_id, circle_id, nonce, token) ==
    /\ Len(token) = 4
    /\ token[1] = secret_hex /\ token[2] = node_id /\ token[3] = circle_id

verify_token(secret_hex, node_id, circle_id, nonce, token) ==
    make_token(secret_hex, node_id, circle_id, nonce) = token

make_message_mac(secret_hex, msg) ==
    <<secret_hex, msg.msg_id, msg.circle_id, msg.channel_id, msg.author_node_id,
      msg.display_name, msg.created_ts, msg.text>>

verify_message_mac(secret_hex, msg) ==
    IF msg.mac = <<>> THEN FALSE
    ELSE make_message_mac(secret_hex, msg) = msg.mac

derive_message_key(secret_hex) == <<"felund-msg-v1", secret_hex>>

\* The characters of a string, as far as the "|" of the f-strings can tell
\* them apart: a string is a sequence of pieces without "|" and of "|".
Chars(s) ==
    CASE ToString(s) = ToString("a|b") -> <<ToString("a"), "|", ToString("b")>>
      [] ToString(s) = ToString("b|c") -> <<ToString("b"), "|", ToString("c")>>
      [] OTHER -> <<ToString(s)>>

\* f"{msg_id}|{circle_id}|{channel_id}|{author_node_id}|{created_ts}"
aad(msg_id, circle_id, channel_id, author_node_id, created_ts) ==
    Chars(msg_id) \o <<"|">> \o Chars(circle_id) \o <<"|">> \o Chars(channel_id)
        \o <<"|">> \o Chars(author_node_id) \o <<"|">> \o <<ToString(created_ts)>>

\* ChatMessage.enc = None (the field the merge reads; text <<>> is no payload)
EncNone == [key |-> <<>>, aad |-> <<>>, display_name |-> "", text |-> <<>>]

encrypt_message_fields(secret_hex, msg) ==
    [key |-> derive_message_key(secret_hex),
     aad |-> aad(msg.msg_id, msg.circle_id, msg.channel_id, msg.author_node_id,
                 msg.created_ts),
     display_name |-> msg.display_name,
     text |-> <<msg.text>>]

\* ok = FALSE stands for InvalidTag / ValueError / KeyError.
decrypt_message_fields(secret_hex, enc, msg_id, circle_id, channel_id, author_node_id, created_ts) ==
    IF /\ enc.key = derive_message_key(secret_hex)
       /\ enc.aad = aad(msg_id, circle_id, channel_id, author_node_id, created_ts)
       /\ Len(enc.text) = 1
    THEN [ok |-> TRUE, display_name |-> enc.display_name, text |-> enc.text[1]]
    ELSE [ok |-> FALSE, display_name |-> "", text |-> <<>>]

\* HKDF over the secret and both nonces.
derive_session_key(secret_hex, client_nonce, server_nonce) ==
    <<"felund-sess-v1", secret_hex, client_nonce, server_nonce>>

\* ---------------------------------------------------------------------- models

Peer(node_id, addr, last_seen) ==
    [node_id |-> node_id, addr |-> addr, last_seen |-> last_seen]

\* The text of a message: chat text, or the JSON object of a control event.
\* Every key of every event is a field; "" (0 for timestamps) is an absent key.
NoText ==
    [t |-> "", op |-> "", channel_id |-> "", node_id |-> "", actor_node_id |-> "",
     created_by |-> "", target_node_id |-> "", access_mode |-> "", key_hash |-> "",
     display_name |-> "", name |-> "", circle_id |-> "", created_ts |-> 0,
     announced_at |-> 0, can_anchor |-> FALSE, public_reachable |-> FALSE,
     is_mobile |-> FALSE, body |-> ""]

\* Plain chat text: not a JSON object.
PlainText(body) == [NoText EXCEPT !.t = "TEXT", !.body = body]

ChatMessage(msg_id, circle_id, channel_id, author_node_id, display_name, created_ts, text) ==
    [msg_id |-> msg_id, circle_id |-> circle_id, channel_id |-> channel_id,
     author_node_id |-> author_node_id, display_name |-> display_name,
     created_ts |-> created_ts, text |-> text, mac |-> <<>>, enc |-> EncNone]

Channel(channel_id, circle_id, created_by, created_ts, access_mode, key_hash) ==
    [channel_id |-> channel_id, circle_id |-> circle_id, created_by |-> created_by,
     created_ts |-> created_ts, access_mode |-> access_mode, key_hash |-> key_hash]

Circle(circle_id, secret_hex, name) ==
    [circle_id |-> circle_id, secret_hex |-> secret_hex, name |-> name]

\* State.default, for the node `node_id`.
DefaultState(node_id, can_anchor) ==
    [node |-> [node_id |-> node_id, display_name |-> "anon", can_anchor |-> can_anchor,
               public_reachable |-> FALSE, is_mobile |-> FALSE],
     circles |-> EmptyDict,
     peers |-> EmptyDict,
     circle_members |-> EmptyDict,
     messages |-> <<>>,
     channels |-> EmptyDict,
     channel_members |-> EmptyDict,
     channel_requests |-> EmptyDict,
     node_display_names |-> Put(EmptyDict, node_id, "anon"),
     anchor_records |-> EmptyDict]

\* state.messages as a dict: its keys, and lookup by key.
MsgIdsOf(messages) == {messages[i].msg_id : i \in DOMAIN messages}

HasMsg(messages, msg_id) == msg_id \in MsgIdsOf(messages)

MsgById(messages, msg_id) ==
    messages[CHOOSE i \in DOMAIN messages : messages[i].msg_id = msg_id]

\* sorted(...) of a set of integers.
SortedSeq(S) == SortSeq(
    CHOOSE q \in [1..Cardinality(S) -> S] : Range(q) = S,
    LAMBDA a, b : a < b)

\* ------------------------------------------------------------- channel_sync

\* The channel ids of the model that fail _valid_channel_id: the empty id and
\* ids starting with "__".
valid_channel_id(channel_id) == channel_id \notin {"", "__control", "__x"}

\* parse_channel_event(text) is not None
parse_channel_event(text) ==
    /\ text.t = "CHANNEL_EVT"
    /\ text.op \in {"create", "join", "request", "approve", "leave", "rename"}

ensure_channel_maps(s, circle_id) ==
    [s EXCEPT !.channels = SetDefault(@, circle_id, EmptyDict),
              !.channel_members = SetDefault(@, circle_id, EmptyDict),
              !.channel_requests = SetDefault(@, circle_id, EmptyDict)]

ensure_general(s, circle_id, now_ts) ==
    LET s1 == ensure_channel_maps(s, circle_id) IN
    [s1 EXCEPT
       !.channels[circle_id] = SetDefault(@, "general",
           Channel("general", circle_id, s.node.node_id, now_ts, "public", "")),
       !.channel_members[circle_id] = SetDefault(@, "general", {}),
       !.channel_requests[circle_id] = SetDefault(@, "general", {})]

\* The part of apply_channel_event after `if op == "create"`: join, leave,
\* request and approve on a valid channel id.
apply_member_op(s1, circle_id, channel_id, event, now_ts) ==
    LET op == event.op
        s2 == [s1 EXCEPT
                 !.channels[circle_id] = SetDefault(@, channel_id,
                     Channel(channel_id, circle_id, event.actor_node_id,
                             IF event.created_ts # 0 THEN event.created_ts ELSE now_ts,
                             "public", "")),
                 !.channel_members[circle_id] = SetDefault(@, channel_id, {}),
                 !.channel_requests[circle_id] = SetDefault(@, channel_id, {})]
    IN
    CASE op = "join" ->
           IF event.node_id # ""
           THEN [s2 EXCEPT
                   !.channel_members[circle_id][channel_id] = @ \cup {event.node_id},
                   !.channel_requests[circle_id][channel_id] = @ \ {event.node_id}]
           ELSE s2
      [] op = "leave" ->
           IF event.node_id # "" /\ channel_id # "general"
           THEN [s2 EXCEPT
                   !.channel_members[circle_id][channel_id] = @ \ {event.node_id},
                   !.channel_requests[circle_id][channel_id] = @ \ {event.node_id}]
           ELSE s2
      [] op = "request" ->
           IF event.node_id # ""
           THEN [s2 EXCEPT
                   !.channel_requests[circle_id][channel_id] = @ \cup {event.node_id}]
           ELSE s2
      [] op = "approve" ->
           IF event.target_node_id # ""
           THEN [s2 EXCEPT
                   !.channel_requests[circle_id][channel_id] = @ \ {event.target_node_id},
                   !.channel_members[circle_id][channel_id] = @ \cup {event.target_node_id}]
           ELSE s2
      [] OTHER -> s2

apply_channel_event(s, circle_id, event, now_ts) ==
    LET s1 == ensure_general(s, circle_id, now_ts)
        op == event.op
        channel_id == Lower(event.channel_id)
    IN
    IF op = "rename" THEN
        IF event.node_id # "" /\ event.display_name # ""
        THEN [s1 EXCEPT !.node_display_names =
                 Put(@, event.node_id, Trunc40(event.display_name))]
        ELSE s1
    ELSE IF op = "create" THEN
        IF ~valid_channel_id(channel_id) THEN s1
        ELSE
          LET access_mode == IF event.access_mode \in {"public", "key", "invite"}
                             THEN event.access_mode ELSE "public"
              created_by == IF event.actor_node_id # "" THEN event.actor_node_id
                            ELSE event.created_by
              created_ts == IF event.created_ts # 0 THEN event.created_ts ELSE now_ts
              key_hash == IF access_mode = "key" THEN event.key_hash ELSE ""
          IN
          [s1 EXCEPT
             !.channels[circle_id] = SetDefault(@, channel_id,
                 Channel(channel_id, circle_id, created_by, created_ts,
                         access_mode, key_hash)),
             !.channel_members[circle_id] =
                 Put(@, channel_id, Get(@, channel_id, {}) \cup {created_by}),
             !.channel_requests[circle_id] = SetDefault(@, channel_id, {})]
    ELSE IF ~valid_channel_id(channel_id) THEN s1
    ELSE apply_member_op(s1, circle_id, channel_id, event, now_ts)

\* parse_circle_name_event(text) is not None
parse_circle_name_event(text) ==
    /\ text.t = "CIRCLE_NAME_EVT"
    /\ text.name # ""
    /\ text.circle_id # ""

apply_circle_name_event(s, circle_id, event) ==
    IF circle_id \notin DOMAIN s.circles THEN s
    ELSE LET name == Trunc40(event.name) IN
         IF name = "" THEN s
         ELSE IF s.circles[circle_id].name = name THEN s
         ELSE [s EXCEPT !.circles[circle_id].name = name]

\* parse_anchor_announce_event(text) is not None
parse_anchor_announce_event(text) ==
    /\ text.t = "ANCHOR_ANNOUNCE"
    /\ text.node_id # ""

AnchorRecord(node_id, can_anchor, public_reachable, is_mobile, announced_at, last_seen_ts) ==
    [node_id |-> node_id, can_anchor |-> can_anchor,
     public_reachable |-> public_reachable, is_mobile |-> is_mobile,
     announced_at |-> announced_at, last_seen_ts |-> last_seen_ts]

\* An apply that takes every announcement, whatever its announced_at.
apply_anchor_announce_event_any(s, circle_id, event, now_ts) ==
    LET s1 == [s EXCEPT !.anchor_records = SetDefault(@, circle_id, EmptyDict)]
        fresh == AnchorRecord(event.node_id, event.can_anchor, event.public_reachable,
                              event.is_mobile, event.announced_at, now_ts)
    IN IF event.node_id = "" THEN s
       ELSE [s1 EXCEPT !.anchor_records[circle_id] = Put(@, event.node_id, fresh)]

apply_anchor_announce_event(s, circle_id, event, now_ts) ==
    LET node_id == event.node_id
        announced_at == event.announced_at
        s1 == [s EXCEPT !.anchor_records = SetDefault(@, circle_id, EmptyDict)]
        circle_anchors == s1.anchor_records[circle_id]
        fresh == AnchorRecord(node_id, event.can_anchor, event.public_reachable,
                              event.is_mobile, announced_at, now_ts)
    IN
    IF node_id = "" THEN s
    ELSE IF node_id \in DOMAIN circle_anchors
    THEN IF circle_anchors[node_id].announced_at >= announced_at
         THEN [s1 EXCEPT !.anchor_records[circle_id][node_id].last_seen_ts = now_ts]
         ELSE [s1 EXCEPT !.anchor_records[circle_id][node_id] = fresh]
    ELSE [s1 EXCEPT !.anchor_records[circle_id] = Put(@, node_id, fresh)]

\* make_channel_event_message / make_circle_name_message /
\* make_anchor_announce_message: a signed __control message of this node.
\* The msg_id (a hash over fresh randomness) is given by the caller.
make_control_message(s, circle_id, msg_id, event, now_ts) ==
    LET msg == ChatMessage(msg_id, circle_id, CONTROL_CHANNEL_ID, s.node.node_id,
                           s.node.display_name, now_ts, event)
    IN [msg EXCEPT !.mac = make_message_mac(s.circles[circle_id].secret_hex, msg)]

\* -------------------------------------------------------------- persistence

\* A sort on created_ts alone.
OlderByTs(m, k) ==
    m.created_ts < k.created_ts

\* m sorts before k in (created_ts, msg_id) order.
OlderThan(m, k) ==
    \/ m.created_ts < k.created_ts
    \/ m.created_ts = k.created_ts /\ m.msg_id < k.msg_id

prune_messages(s, now_ts) ==
    LET fresh == SelectSeq(s.messages,
                     LAMBDA m : ~(now_ts - m.created_ts > MESSAGE_MAX_AGE_S))
        \* circle_msgs[-MAX_MESSAGES_PER_CIRCLE:] of the sorted circle messages
        Kept(m) ==
            \/ m.circle_id \notin DOMAIN s.circles
            \/ Cardinality({i \in DOMAIN fresh :
                   /\ fresh[i].circle_id = m.circle_id
                   /\ OlderThan(m, fresh[i])}) < MAX_MESSAGES_PER_CIRCLE
    IN [s EXCEPT !.messages = SelectSeq(fresh, Kept)]

\* save_state prunes, then writes the snapshot to disk.
save_state(s, now_ts) == prune_messages(s, now_ts)

\* ------------------------------------------------------------------- gossip

\* The position of a node id in sorted order (ties of a sort are broken by it).
NodeRank(node_id) ==
    CASE node_id = "adv" -> 0
      [] node_id = "n1" -> 1
      [] node_id = "n2" -> 2
      [] node_id = "n3" -> 3
      [] OTHER -> 4

\* GossipNode.known_peers_for_circle: the circle's members that have a peer
\* record, greatest last_seen first.
known_peers_for_circle(s, circle_id) ==
    LET member_ids == Get(s.circle_members, circle_id, {})
        ids == {pid \in member_ids : pid \in DOMAIN s.peers}
        some == CHOOSE q \in [1..Cardinality(ids) -> ids] : Range(q) = ids
        byLastSeen == SortSeq(some, LAMBDA a, b :
            \/ s.peers[a].last_seen > s.peers[b].last_seen
            \/ /\ s.peers[a].last_seen = s.peers[b].last_seen
               /\ NodeRank(a) < NodeRank(b))
    IN [i \in 1..Len(byLastSeen) |-> s.peers[byLastSeen[i]]]

\* GossipNode.message_ids_for_circle, as a set (the frame carries it sorted).
message_ids_for_circle(s, circle_id) ==
    {s.messages[i].msg_id : i \in {j \in DOMAIN s.messages :
                                      s.messages[j].circle_id = circle_id}}

\* A merge that also takes a triple whose last_seen equals the stored one.
merge_peer_ties(s, pd) ==
    IF \/ pd.node_id \notin DOMAIN s.peers
       \/ pd.last_seen >= s.peers[pd.node_id].last_seen
    THEN [s EXCEPT !.peers = Put(@, pd.node_id, Peer(pd.node_id, pd.addr, pd.last_seen))]
    ELSE s

\* One iteration of the loop of _merge_peers, after members.add(node_id).
merge_peer(s, pd) ==
    IF \/ pd.node_id \notin DOMAIN s.peers
       \/ pd.last_seen > s.peers[pd.node_id].last_seen
    THEN [s EXCEPT !.peers = Put(@, pd.node_id, Peer(pd.node_id, pd.addr, pd.last_seen))]
    ELSE s

RECURSIVE merge_peers_from(_, _, _, _)
merge_peers_from(s, circle_id, peer_dicts, i) ==
    IF i > Len(peer_dicts) THEN s
    ELSE LET pd == peer_dicts[i] IN
         IF pd.node_id = "" \/ pd.addr = ""
         THEN merge_peers_from(s, circle_id, peer_dicts, i + 1)
         ELSE merge_peers_from(
                  merge_peer([s EXCEPT !.circle_members[circle_id] = @ \cup {pd.node_id}],
                             pd),
                  circle_id, peer_dicts, i + 1)

\* GossipNode._merge_peers
merge_peers(s, circle_id, peer_dicts) ==
    merge_peers_from(
        [s EXCEPT !.circle_members = SetDefault(@, circle_id, {})],
        circle_id, peer_dicts, 1)

\* The dispatch of a newly stored __control message in _merge_messages.
\* (No text of the model is a call event.)
apply_control(s, circle_id, text, now_ts) ==
    IF parse_channel_event(text) THEN apply_channel_event(s, circle_id, text, now_ts)
    ELSE IF parse_circle_name_event(text) THEN apply_circle_name_event(s, circle_id, text)
    ELSE IF parse_anchor_announce_event(text)
         THEN apply_anchor_announce_event(s, circle_id, text, now_ts)
    ELSE s

\* The body of `if m.msg_id not in self.state.messages` in _merge_messages.
store_message(s, circle_id, m, now_ts) ==
    LET s1 == [s EXCEPT !.messages = Append(@, m)]
        s2 == IF m.display_name # ""
              THEN [s1 EXCEPT !.node_display_names =
                       Put(@, m.author_node_id, Trunc40(m.display_name))]
              ELSE s1
    IN IF m.channel_id = CONTROL_CHANNEL_ID
       THEN apply_control(s2, circle_id, m.text, now_ts)
       ELSE s2

\* The message _merge_messages admits for the dict md: decrypted when md
\* carries an enc envelope, md itself otherwise.
admitted_message(secret_hex, md) ==
    IF md.enc # EncNone
    THEN LET dec == decrypt_message_fields(secret_hex, md.enc, md.msg_id,
                        md.circle_id, md.channel_id, md.author_node_id, md.created_ts)
         IN [md EXCEPT !.display_name = dec.display_name, !.text = dec.text,
                       !.enc = EncNone]
    ELSE md

\* A merge that checks neither envelope nor MAC.
admits_any(secret_hex, md) == TRUE

\* Whether _merge_messages lets md past its checks: the enc envelope
\* authenticates, or (no envelope) the MAC verifies.
admits(secret_hex, md) ==
    IF md.enc # EncNone
    THEN decrypt_message_fields(secret_hex, md.enc, md.msg_id, md.circle_id,
             md.channel_id, md.author_node_id, md.created_ts).ok
    ELSE verify_message_mac(secret_hex, md)

\* A merge that stores an admitted message over one with the same msg_id.
merge_message_overwrite(s, circle_id, md, now_ts) ==
    LET secret_hex == s.circles[circle_id].secret_hex IN
    IF md.circle_id # circle_id \/ ~admits(secret_hex, md) THEN s
    ELSE LET m == admitted_message(secret_hex, md)
             kept == SelectSeq(s.messages, LAMBDA k : k.msg_id # m.msg_id)
         IN store_message([s EXCEPT !.messages = kept], circle_id, m, now_ts)

\* An iteration that does not compare the circle of the message with the
\* circle of the connection.
merge_message_any_circle(s, circle_id, md, now_ts) ==
    LET secret_hex == s.circles[circle_id].secret_hex IN
    IF ~admits(secret_hex, md) THEN s
    ELSE LET m == admitted_message(secret_hex, md) IN
         IF HasMsg(s.messages, m.msg_id) THEN s
         ELSE store_message(s, circle_id, m, now_ts)

\* One iteration of the loop of _merge_messages.
merge_message(s, circle_id, md, now_ts) ==
    LET secret_hex == s.circles[circle_id].secret_hex IN
    IF md.circle_id # circle_id THEN s
    ELSE IF ~admits(secret_hex, md) THEN s
    ELSE LET m == admitted_message(secret_hex, md) IN
         IF HasMsg(s.messages, m.msg_id) THEN s
         ELSE store_message(s, circle_id, m, now_ts)

RECURSIVE merge_messages_from(_, _, _, _, _)
merge_messages_from(s, circle_id, msg_dicts, i, now_ts) ==
    IF i > Len(msg_dicts) THEN s
    ELSE merge_messages_from(merge_message(s, circle_id, msg_dicts[i], now_ts),
                             circle_id, msg_dicts, i + 1, now_ts)

\* Why _merge_messages skips messages of the offer: "refused" (the circle
\* or authenticity check fails), "duplicate" (the msg_id is stored) and
\* "changed_duplicate" (stored with other content).
Skips(s, circle_id, msg_dicts) ==
    IF circle_id \notin DOMAIN s.circles THEN {}
    ELSE LET secret_hex == s.circles[circle_id].secret_hex
             Ok(md) == md.circle_id = circle_id /\ admits(secret_hex, md)
         IN {<<s.node.node_id, "refused">> : k \in {j \in DOMAIN msg_dicts :
                                                      ~Ok(msg_dicts[j])}}
            \cup {<<s.node.node_id, "duplicate">> : k \in {j \in DOMAIN msg_dicts :
                    Ok(msg_dicts[j]) /\ HasMsg(s.messages, msg_dicts[j].msg_id)}}
            \cup {<<s.node.node_id, "changed_duplicate">> :
                    k \in {j \in DOMAIN msg_dicts :
                       /\ Ok(msg_dicts[j])
                       /\ HasMsg(s.messages, msg_dicts[j].msg_id)
                       /\ MsgById(s.messages, msg_dicts[j].msg_id)
                             # admitted_message(secret_hex, msg_dicts[j])}}

\* A merge that stores nothing.
merge_messages_none(s, circle_id, msg_dicts, now_ts) ==
    s

\* GossipNode._merge_messages
merge_messages(s, circle_id, msg_dicts, now_ts) ==
    IF circle_id \notin DOMAIN s.circles THEN s
    ELSE merge_messages_from(s, circle_id, msg_dicts, 1, now_ts)

\* ------------------------------------------------------- rendezvous_client

merge_discovered_peer(s, circle_id, node_id, addr, now_ts) ==
    IF node_id = "" \/ addr = "" \/ node_id = s.node.node_id THEN s
    ELSE LET s1 == [s EXCEPT !.circle_members[circle_id] = @ \cup {node_id}] IN
         IF \/ node_id \notin DOMAIN s1.peers
            \/ s1.peers[node_id].addr # addr
            \/ now_ts > s1.peers[node_id].last_seen
         THEN [s1 EXCEPT !.peers = Put(@, node_id, Peer(node_id, addr, now_ts))]
         ELSE s1

RECURSIVE merge_discovered_from(_, _, _, _, _)
merge_discovered_from(s, circle_id, peer_addrs, i, now_ts) ==
    IF i > Len(peer_addrs) THEN s
    ELSE merge_discovered_from(
             merge_discovered_peer(s, circle_id, peer_addrs[i][1], peer_addrs[i][2],
                                   now_ts),
             circle_id, peer_addrs, i + 1, now_ts)

\* merge_discovered_peers, as the resulting state
merge_discovered_peers(s, circle_id, peer_addrs, now_ts) ==
    merge_discovered_from(
        [s EXCEPT !.circle_members = SetDefault(@, circle_id, {})],
        circle_id, peer_addrs, 1, now_ts)

\* One iteration of the loop of merge_relay_messages: the ChatMessage is
\* built from the raw dict's msg_id, circle_id, channel_id, author_node_id,
\* display_name, created_ts, text and mac; any enc key is not read.
merge_relay_message(s, circle_id, raw) ==
    LET msg == [raw EXCEPT !.enc = EncNone] IN
    IF raw.msg_id = 0 \/ HasMsg(s.messages, raw.msg_id) THEN s
    ELSE IF msg.circle_id # circle_id THEN s
    ELSE IF ~verify_message_mac(s.circles[circle_id].secret_hex, msg) THEN s
    ELSE [s EXCEPT !.messages = Append(@, msg)]

RECURSIVE merge_relay_from(_, _, _, _)
merge_relay_from(s, circle_id, raw_msgs, i) ==
    IF i > Len(raw_msgs) THEN s
    ELSE merge_relay_from(merge_relay_message(s, circle_id, raw_msgs[i]),
                          circle_id, raw_msgs, i + 1)

\* merge_relay_messages, as the resulting state
merge_relay_messages(s, circle_id, raw_msgs) ==
    IF circle_id \notin DOMAIN s.circles THEN s
    ELSE merge_relay_from(s, circle_id, raw_msgs, 1)

\* ------------------------------------------------------------------ anchor

\* The envelope _anchor_push_pull builds for m: no display_name, text or mac
\* key, the content is in enc.
Envelope(secret_hex, m) ==
    [msg_id |-> m.msg_id, circle_id |-> m.circle_id, channel_id |-> m.channel_id,
     author_node_id |-> m.author_node_id, display_name |-> "",
     created_ts |-> m.created_ts, text |-> NoText, mac |-> <<>>,
     enc |-> encrypt_message_fields(secret_hex, m)]

\* len(json.dumps(env)): an envelope of the long body is two units, any
\* other one unit.
env_bytes(env) ==
    IF Len(env.enc.text) = 1 /\ env.enc.text[1].body = "big" THEN 2 ELSE 1

\* A store in which a later envelope replaces the one held for its msg_id.
store_anchor_envelope_last(circle_store, msg_id, envelope) ==
    IF \E i \in DOMAIN circle_store : circle_store[i].msg_id = msg_id
    THEN [i \in DOMAIN circle_store |->
             IF circle_store[i].msg_id = msg_id THEN envelope ELSE circle_store[i]]
    ELSE Append(circle_store, envelope)

\* store_anchor_envelope on one circle's store
store_anchor_envelope(circle_store, msg_id, envelope) ==
    IF \E i \in DOMAIN circle_store : circle_store[i].msg_id = msg_id
    THEN circle_store
    ELSE Append(circle_store, envelope)

\* sorted(circle_store, key=created_ts): positions, oldest first (stable).
OldestFirst(circle_store) ==
    SortSeq([i \in 1..Len(circle_store) |-> i], LAMBDA a, b :
        \/ circle_store[a].created_ts < circle_store[b].created_ts
        \/ /\ circle_store[a].created_ts = circle_store[b].created_ts
           /\ a < b)

\* circle_store without the first k positions of `order`.
WithoutFirst(circle_store, order, k) ==
    LET gone == {order[j] : j \in 1..k}
        keep == SortSeq(
            CHOOSE q \in [1..(Len(circle_store) - k) -> (DOMAIN circle_store) \ gone] :
                Range(q) = (DOMAIN circle_store) \ gone,
            LAMBDA a, b : a < b)
    IN [j \in 1..Len(keep) |-> circle_store[keep[j]]]

RECURSIVE SumBytes(_, _)
SumBytes(circle_store, i) ==
    IF i > Len(circle_store) THEN 0
    ELSE env_bytes(circle_store[i]) + SumBytes(circle_store, i + 1)

\* The number of envelopes the size loop pops: it stops once total fits.
RECURSIVE PopCount(_, _, _, _)
PopCount(circle_store, order, total, k) ==
    IF total <= ANCHOR_MAX_BYTES \/ k >= Len(order) THEN k
    ELSE PopCount(circle_store, order,
                  total - env_bytes(circle_store[order[k + 1]]), k + 1)

\* prune_anchor_store on one circle's store
prune_anchor_store(circle_store, now_ts) ==
    LET aged == SelectSeq(circle_store,
                    LAMBDA env : ~(now_ts - env.created_ts > ANCHOR_MAX_AGE_S))
        counted == IF Len(aged) > ANCHOR_MAX_MSGS
                   THEN WithoutFirst(aged, OldestFirst(aged), Len(aged) - ANCHOR_MAX_MSGS)
                   ELSE aged
        total == SumBytes(counted, 1)
    IN IF total > ANCHOR_MAX_BYTES
       THEN WithoutFirst(counted, OldestFirst(counted),
                         PopCount(counted, OldestFirst(counted), total, 0))
       ELSE counted

\* ---------------------------------------------------------------- transport

\* A frame on the wire: plaintext JSON (key <<>>) or AES-GCM under a session key.
Wire(key, f) == [key |-> key, f |-> f]

\* read_frame / read_enc_frame with `key` returns the frame; any other
\* pairing raises (bad JSON, bad base64, InvalidTag).
Readable(w, key) == w.key = key

Hello(node_id, circle_id, listen_addr, nonce, can_anchor) ==
    [t |-> "HELLO", node_id |-> node_id, circle_id |-> circle_id,
     listen_addr |-> listen_addr, nonce |-> nonce, can_anchor |-> can_anchor]

Challenge(nonce) == [t |-> "CHALLENGE", nonce |-> nonce]

HelloAuth(token) == [t |-> "HELLO_AUTH", token |-> token]

Welcome(node_id, enc_ready, can_anchor) ==
    [t |-> "WELCOME", node_id |-> node_id, enc_ready |-> enc_ready,
     can_anchor |-> can_anchor]

Error(err) == [t |-> "ERROR", err |-> err]

PeersFrame(circle_id, peers) == [t |-> "PEERS", circle_id |-> circle_id, peers |-> peers]

MsgsHave(circle_id, msg_ids) ==
    [t |-> "MSGS_HAVE", circle_id |-> circle_id, msg_ids |-> msg_ids]

MsgsReq(circle_id, msg_ids) ==
    [t |-> "MSGS_REQ", circle_id |-> circle_id, msg_ids |-> msg_ids]

MsgsSend(circle_id, messages) ==
    [t |-> "MSGS_SEND", circle_id |-> circle_id, messages |-> messages]

AnchorPush(circle_id, envelopes) ==
    [t |-> "ANCHOR_PUSH", circle_id |-> circle_id, envelopes |-> envelopes]

AnchorPushAck(stored) == [t |-> "ANCHOR_PUSH_ACK", stored |-> stored]

AnchorPull(circle_id, since) ==
    [t |-> "ANCHOR_PULL", circle_id |-> circle_id, since |-> since]

AnchorMsgs(envelopes, server_time) ==
    [t |-> "ANCHOR_MSGS", envelopes |-> envelopes, server_time |-> server_time]

\* The address a host listens on; "" is no address, "junk" has no port.
AddrAt(host) ==
    CASE host = "n1" -> "n1:p"
      [] host = "n2" -> "n2:p"
      [] host = "n3" -> "n3:p"
      [] OTHER -> "adv:p"

\* GossipNode._resolve_peer_addr: the observed host with the advertised port.
resolve_peer_addr(peer_host, listen_addr) ==
    IF listen_addr = "" THEN ""
    ELSE IF listen_addr = "junk" THEN listen_addr
    ELSE AddrAt(peer_host)

\* ------------------------------------------------------------------ variables

VARIABLES
    state,              \* node -> State (GossipNode.state)
    now,                \* node -> the host's clock, time.time()
    lock,               \* node -> the task holding GossipNode._lock, or NoTask
    conns,              \* connection id -> the TCP connection and both tasks' locals
    anchor_store,       \* node -> circle_id -> envelopes (GossipNode.anchor_store)
    anchor_pull_since,  \* node -> circle_id -> cursor (GossipNode._anchor_pull_since)
    tui,                \* node -> the chat screen's circle, channel and _seen
    next_id,            \* the number of message ids drawn so far
    synced,             \* history: pairs that completed a sync since the last post
    pruned,             \* history: msg ids some node's prune_messages dropped
    unlocked,           \* history: code sites that mutated state outside the lock
    applied,            \* history: node -> msg_id -> times its control event was applied
    seen_tokens,        \* the HELLO_AUTH tokens the host ADV has been sent
    skipped,            \* history: <<node, why>> for the offers its merge has skipped
    served,             \* history: anchor -> <<puller, circle_id>> -> its last pull reply
    started,            \* history: connection id -> both nodes' State when it was opened
    loop,               \* node -> the position and locals of its gossip_loop task
    relay,              \* the relay server: its clock, relay_messages and requests
    call,               \* the last call of a pure function: arguments and result
    errors              \* history: connection id -> the <<side, err>> its tasks gave up with

vars == <<state, now, lock, conns, anchor_store, anchor_pull_since, tui, next_id,
          synced, pruned, unlocked, applied, seen_tokens, skipped, served, started,
          loop, relay, call, errors>>

ConnIds == 1..MaxConns

\* No call of a pure function has been made.
NoCall == [fn |-> "none"]

\* A node whose gossip_loop task has not been created.
LoopIdle ==
    [pc |-> "off", stop |-> FALSE, round |-> 0, circles |-> <<>>, cid |-> "",
     peers |-> <<>>, conn |-> 0, counter |-> 0,
     snap |-> <<>>, dialled |-> <<>>, mine |-> {}, at_stop |-> {}]

LoopOff == [n \in Nodes |-> LoopIdle]

\* No relay server is in use.
RelayOff == [on |-> FALSE]

\* The history kept per connection: the State of the node at each end when
\* the connection was opened (nothing for the host ADV).
NotStarted == [i |-> <<>>, r |-> <<>>]

\* A specification whose Init gives `started` (or `served`) an empty domain
\* keeps no such history.
Started(c, i, r) ==
    IF c \notin DOMAIN started THEN started
    ELSE [started EXCEPT ![c] = [i |-> IF i \in Nodes THEN state[i] ELSE <<>>,
                                 r |-> IF r \in Nodes THEN state[r] ELSE <<>>]]

\* The history `errors` after the task at `side` of c gives up with err, when
\* `unexpected` holds (the ERROR frame it writes, or the line it logs).
Logged(c, side, unexpected, err) ==
    IF unexpected /\ c \in DOMAIN errors
    THEN [errors EXCEPT ![c] = @ \cup {<<side, err>>}]
    ELSE errors

\* A connection not opened yet, and one both ends have closed.
FreshConn ==
    [ini |-> "", res |-> "", circle_id |-> "", ipc |-> "idle", rpc |-> "idle",
     i2r |-> <<>>, r2i |-> <<>>, i_secret |-> "", r_secret |-> "",
     peer_node_id |-> "", listen_addr |-> "", client_nonce |-> <<>>,
     server_nonce |-> <<>>, token |-> <<>>,
     welcomed |-> FALSE, i_key |-> <<>>, r_key |-> <<>>,
     i_sn |-> <<>>, r_cn |-> <<>>, i_rca |-> FALSE, r_rca |-> FALSE,
     gen |-> 0, done |-> {}, sent |-> 0]

ClosedConn == [FreshConn EXCEPT !.ipc = "closed", !.rpc = "closed"]

Task(c, side) == <<c, side>>

Other(side) == IF side = "i" THEN "r" ELSE "i"

Pc(rec, side) == IF side = "i" THEN rec.ipc ELSE rec.rpc

NodeOf(rec, side) == IF side = "i" THEN rec.ini ELSE rec.res

KeyOf(rec, side) == IF side = "i" THEN rec.i_key ELSE rec.r_key

Inbound(rec, side) == IF side = "i" THEN rec.r2i ELSE rec.i2r

SetPc(rec, side, pc) ==
    IF side = "i" THEN [rec EXCEPT !.ipc = pc] ELSE [rec EXCEPT !.rpc = pc]

\* The reader consumed k frames.
Recv(rec, side, k) ==
    IF side = "i" THEN [rec EXCEPT !.r2i = SubSeq(@, k + 1, Len(@))]
    ELSE [rec EXCEPT !.i2r = SubSeq(@, k + 1, Len(@))]

\* write_frame / write_enc_frame. What is written to a closed socket is lost;
\* ADV reads at once, its queue shows the last write.
Emit(rec, side, frames) ==
    IF Pc(rec, Other(side)) = "closed" THEN rec
    ELSE IF NodeOf(rec, Other(side)) = ADV
    THEN IF side = "i" THEN [rec EXCEPT !.i2r = frames] ELSE [rec EXCEPT !.r2i = frames]
    ELSE IF side = "i" THEN [rec EXCEPT !.i2r = @ \o frames]
    ELSE [rec EXCEPT !.r2i = @ \o frames]

\* A task that goes on after the point at which the code returns.
CloseNever(rec, side) ==
    rec

\* writer.close(): what the closed end has not read is discarded; a
\* connection whose ends are both gone is forgotten.
Close(rec, side) ==
    LET r1 == SetPc(rec, side, "closed")
        r2 == IF side = "i" THEN [r1 EXCEPT !.r2i = <<>>] ELSE [r1 EXCEPT !.i2r = <<>>]
    IN IF Pc(r2, Other(side)) = "closed" \/ NodeOf(r2, Other(side)) = ADV
       THEN ClosedConn ELSE r2

Open(c) == conns[c].ipc \notin {"idle", "closed"} \/ conns[c].rpc \notin {"idle", "closed"}

\* The result of save_state on s1 at node n, and the ids its pruning drops.
Saved(n, s1) == save_state(s1, now[n])

Dropped(n, s1) == MsgIdsOf(s1.messages) \ MsgIdsOf(Saved(n, s1).messages)

\* ----------------------------------------------------------------------- chat

\* chat.ensure_default_channel
ensure_default_channel(s, circle_id, now_ts) ==
    LET s1 == ensure_channel_maps(s, circle_id) IN
    [s1 EXCEPT
       !.channels[circle_id] = SetDefault(@, "general",
           Channel("general", circle_id, s.node.node_id, now_ts, "public", "")),
       !.channel_members[circle_id] =
           Put(@, "general", Get(@, "general", {}) \cup {s.node.node_id}),
       !.channel_requests[circle_id] = SetDefault(@, "general", {})]

\* The state after chat.create_circle, or after joining with an invite code
\* that carries the secret: the circle, this node as member, #general.
with_circle(s, secret_hex, now_ts) ==
    LET circle_id == CircleIdOf(secret_hex)
        s1 == [s EXCEPT
                 !.circles = Put(@, circle_id, Circle(circle_id, secret_hex, "")),
                 !.circle_members =
                     Put(@, circle_id, Get(@, circle_id, {}) \cup {s.node.node_id})]
    IN ensure_default_channel(s1, circle_id, now_ts)

\* ------------------------------------------------------------------ handshake

OpenCount == Cardinality({d \in ConnIds : Open(d)})

\* connect_and_sync up to the first read: open the connection, send HELLO.
DialFrom(c, i, r, circle_id) ==
    /\ conns[c].ipc = "idle"
    /\ \A d \in ConnIds : d < c => conns[d].ipc # "idle"
    /\ OpenCount < MaxOpen
    /\ circle_id \in DOMAIN state[i].circles
    /\ conns' = [conns EXCEPT ![c] =
         [FreshConn EXCEPT
            !.ini = i, !.res = r, !.circle_id = circle_id,
            !.ipc = "rd_challenge",
            !.rpc = IF r = ADV THEN "adv" ELSE "rd_hello",
            !.i2r = <<Wire(<<>>, Hello(i, circle_id, AddrAt(i), <<"cn", c>>,
                                       state[i].node.can_anchor))>>,
            !.i_secret = state[i].circles[circle_id].secret_hex,
            !.client_nonce = <<"cn", c>>,
            !.gen = next_id]]
    /\ started' = Started(c, i, r)
    /\ UNCHANGED <<relay, call, state, now, lock, anchor_store, anchor_pull_since, served, tui, next_id,
                   synced, pruned, unlocked, applied, seen_tokens, errors, skipped>>

\* connect_and_sync called from the chat screen or a test, not from the loop.
Dial(c, i, r, circle_id) ==
    /\ DialFrom(c, i, r, circle_id)
    /\ UNCHANGED loop

\* The `except Exception` of _handle_conn replies "Internal error" in
\* plaintext; connect_and_sync only logs.
Raise(rec, side) ==
    IF side = "r"
    THEN Close(Emit(rec, side, <<Wire(<<>>, Error("Internal error"))>>), side)
    ELSE Close(rec, side)

\* _handle_conn: read HELLO, look the circle up under the lock, send CHALLENGE.
R_Hello(c) ==
    LET rec == conns[c]
        r == rec.res
        w == Head(rec.i2r)
        hello == w.f
        got == Recv(rec, "r", 1)
    IN
    /\ rec.rpc = "rd_hello"
    /\ rec.i2r # <<>>
    /\ IF ~Readable(w, <<>>)
       THEN /\ conns' = [conns EXCEPT ![c] = Raise(got, "r")]
            /\ UNCHANGED lock
       ELSE IF hello.t # "HELLO"
       THEN /\ conns' = [conns EXCEPT ![c] =
                  Close(Emit(got, "r", <<Wire(<<>>, Error("Expected HELLO"))>>), "r")]
            /\ UNCHANGED lock
       ELSE /\ lock[r] = NoTask
            /\ IF hello.circle_id \notin DOMAIN state[r].circles
               THEN \* the ERROR is written inside `async with self._lock`
                    /\ lock' = [lock EXCEPT ![r] = Task(c, "r")]
                    /\ conns' = [conns EXCEPT ![c] =
                          SetPc(Emit(got, "r",
                                     <<Wire(<<>>, Error("Unknown circle_id"))>>),
                                "r", "wr_err")]
               ELSE /\ UNCHANGED lock
                    /\ conns' = [conns EXCEPT ![c] =
                          [Emit(got, "r", <<Wire(<<>>, Challenge(<<"sn", c>>))>>)
                             EXCEPT !.rpc = "rd_auth",
                                    !.circle_id = hello.circle_id,
                                    !.peer_node_id = hello.node_id,
                                    !.listen_addr = hello.listen_addr,
                                    !.r_cn = hello.nonce,
                                    !.r_rca = hello.can_anchor,
                                    !.server_nonce = <<"sn", c>>]]
    /\ errors' = Logged(c, "r", Readable(w, <<>>) /\ hello.t # "HELLO", "Expected HELLO")
    /\ UNCHANGED <<loop, relay, call, state, now, anchor_store, anchor_pull_since, served, started, tui, next_id,
                   synced, pruned, unlocked, applied, seen_tokens, skipped>>

\* The ERROR written under the lock is flushed: leave the `async with`, close.
R_ErrDone(c) ==
    /\ conns[c].rpc = "wr_err"
    /\ lock[conns[c].res] = Task(c, "r")
    /\ lock' = [lock EXCEPT ![conns[c].res] = NoTask]
    /\ conns' = [conns EXCEPT ![c] = Close(conns[c], "r")]
    /\ UNCHANGED <<loop, relay, call, state, now, anchor_store, anchor_pull_since, served, started, tui, next_id,
                   synced, pruned, unlocked, applied, seen_tokens, errors, skipped>>

\* connect_and_sync: read CHALLENGE, send HELLO_AUTH.
I_Challenge(c) ==
    LET rec == conns[c]
        i == rec.ini
        w == Head(rec.r2i)
        got == Recv(rec, "i", 1)
        token == make_token(rec.i_secret, state[i].node.node_id, rec.circle_id,
                            w.f.nonce)
    IN
    /\ rec.ipc = "rd_challenge"
    /\ rec.r2i # <<>>
    /\ IF ~Readable(w, <<>>) \/ w.f.t # "CHALLENGE"
       THEN conns' = [conns EXCEPT ![c] = Close(got, "i")]
       ELSE conns' = [conns EXCEPT ![c] =
              [Emit(got, "i", <<Wire(<<>>, HelloAuth(token))>>)
                 EXCEPT !.ipc = "rd_welcome", !.i_sn = w.f.nonce]]
    /\ seen_tokens' = IF rec.res = ADV /\ Readable(w, <<>>) /\ w.f.t = "CHALLENGE"
                      THEN seen_tokens \cup {token} ELSE seen_tokens
    /\ errors' = Logged(c, "i", Readable(w, <<>>) /\ w.f.t # "CHALLENGE",
                         "expected CHALLENGE")
    /\ UNCHANGED <<loop, relay, call, state, now, lock, anchor_store, anchor_pull_since, served, started, tui, next_id,
                   synced, pruned, unlocked, applied, skipped>>

\* A responder that announces session encryption to every client.
enc_ready_always(client_nonce) ==
    TRUE

\* _handle_conn: enc_ready = bool(client_nonce).
enc_ready(client_nonce) ==
    client_nonce # <<>>

\* A handshake that does not record the peer.
admit_peer_none(s, circle_id, peer_node_id, peer_host, listen_addr, now_ts) ==
    s

\* The lock section of _handle_conn that admits the peer (lines 139-150),
\* before save_state.
admit_peer(s, circle_id, peer_node_id, peer_host, listen_addr, now_ts) ==
    LET s1 == IF listen_addr # ""
              THEN [s EXCEPT !.peers = Put(@, peer_node_id,
                       Peer(peer_node_id, resolve_peer_addr(peer_host, listen_addr),
                            now_ts))]
              ELSE IF peer_node_id \in DOMAIN s.peers
              THEN [s EXCEPT !.peers[peer_node_id].last_seen = now_ts]
              ELSE s
    IN [s1 EXCEPT !.circle_members =
           Put(@, circle_id, Get(@, circle_id, {}) \cup {peer_node_id})]

\* _handle_conn: read HELLO_AUTH, verify the token under the lock, admit the
\* peer, save, send WELCOME.
R_Auth(c) ==
    LET rec == conns[c]
        r == rec.res
        w == Head(rec.i2r)
        got == Recv(rec, "r", 1)
        circle_id == rec.circle_id
        s1 == admit_peer(state[r], circle_id, rec.peer_node_id, rec.ini,
                         rec.listen_addr, now[r])
    IN
    /\ rec.rpc = "rd_auth"
    /\ rec.i2r # <<>>
    /\ IF ~Readable(w, <<>>)
       THEN /\ conns' = [conns EXCEPT ![c] = Raise(got, "r")]
            /\ UNCHANGED <<state, lock, pruned>>
       ELSE IF w.f.t # "HELLO_AUTH"
       THEN /\ conns' = [conns EXCEPT ![c] =
                  Close(Emit(got, "r", <<Wire(<<>>, Error("Expected HELLO_AUTH"))>>), "r")]
            /\ UNCHANGED <<state, lock, pruned>>
       ELSE /\ lock[r] = NoTask
            /\ IF circle_id \notin DOMAIN state[r].circles
               THEN /\ lock' = [lock EXCEPT ![r] = Task(c, "r")]
                    /\ conns' = [conns EXCEPT ![c] =
                          [SetPc(Emit(got, "r",
                                      <<Wire(<<>>, Error("Unknown circle_id"))>>),
                                 "r", "wr_err") EXCEPT !.token = w.f.token]]
                    /\ UNCHANGED <<state, pruned>>
               ELSE IF ~verify_token(state[r].circles[circle_id].secret_hex,
                                     rec.peer_node_id, circle_id, rec.server_nonce,
                                     w.f.token)
               THEN /\ lock' = [lock EXCEPT ![r] = Task(c, "r")]
                    /\ conns' = [conns EXCEPT ![c] =
                          [SetPc(Emit(got, "r", <<Wire(<<>>, Error("Auth failed"))>>),
                                 "r", "wr_err") EXCEPT !.token = w.f.token]]
                    /\ UNCHANGED <<state, pruned>>
               ELSE /\ UNCHANGED lock
                    /\ state' = [state EXCEPT ![r] = Saved(r, s1)]
                    /\ pruned' = pruned \cup Dropped(r, s1)
                    /\ conns' = [conns EXCEPT ![c] =
                          [Emit(got, "r",
                                <<Wire(<<>>, Welcome(state[r].node.node_id,
                                                     enc_ready(rec.r_cn),
                                                     state[r].node.can_anchor))>>)
                             EXCEPT !.rpc = "wr_welcome", !.token = w.f.token,
                                    !.welcomed = TRUE,
                                    !.r_secret = state[r].circles[circle_id].secret_hex]]
    /\ errors' = Logged(c, "r", Readable(w, <<>>) /\ w.f.t # "HELLO_AUTH",
                         "Expected HELLO_AUTH")
    /\ UNCHANGED <<loop, relay, call, now, anchor_store, anchor_pull_since, served, started, tui, next_id,
                   synced, unlocked, applied, seen_tokens, skipped>>

\* ----------------------------------------------------------------------- sync

\* PEERS and MSGS_HAVE followed at once by a request, before the peer's offer
\* has been read.
OwnOfferEager(s, circle_id, key) ==
    <<Wire(key, PeersFrame(circle_id, known_peers_for_circle(s, circle_id))),
      Wire(key, MsgsHave(circle_id, message_ids_for_circle(s, circle_id))),
      Wire(key, MsgsReq(circle_id, <<>>))>>

\* Phase 1 cut short: PEERS without MSGS_HAVE.
OwnOfferPeersOnly(s, circle_id, key) ==
    <<Wire(key, PeersFrame(circle_id, known_peers_for_circle(s, circle_id)))>>

\* Phase 1 of _sync_with_connected_peer: PEERS and MSGS_HAVE of this node.
OwnOffer(s, circle_id, key) ==
    <<Wire(key, PeersFrame(circle_id, known_peers_for_circle(s, circle_id))),
      Wire(key, MsgsHave(circle_id, message_ids_for_circle(s, circle_id)))>>

\* _handle_conn after WELCOME is flushed: derive the session key, take the
\* lock, send PEERS and MSGS_HAVE.
R_SyncStart(c) ==
    LET rec == conns[c]
        r == rec.res
        key == IF enc_ready(rec.r_cn)
               THEN derive_session_key(rec.r_secret, rec.r_cn, rec.server_nonce)
               ELSE <<>>
    IN
    /\ rec.rpc = "wr_welcome"
    /\ lock[r] = NoTask
    /\ conns' = [conns EXCEPT ![c] =
         [Emit(rec, "r", OwnOffer(state[r], rec.circle_id, key))
            EXCEPT !.rpc = "rd_have", !.r_key = key]]
    /\ UNCHANGED <<loop, relay, call, state, now, lock, anchor_store, anchor_pull_since, served, started, tui, next_id,
                   synced, pruned, unlocked, applied, seen_tokens, errors, skipped>>

\* The lock section of connect_and_sync that records the server (lines 507-516).
record_server(s, circle_id, server_node_id, peer_addr, now_ts) ==
    IF server_node_id = "" \/ server_node_id = s.node.node_id THEN s
    ELSE LET s1 == [s EXCEPT !.circle_members =
                       Put(@, circle_id, Get(@, circle_id, {}) \cup {server_node_id})]
         IN IF \/ server_node_id \notin DOMAIN s1.peers
               \/ now_ts >= s1.peers[server_node_id].last_seen
            THEN [s1 EXCEPT !.peers = Put(@, server_node_id,
                                          Peer(server_node_id, peer_addr, now_ts))]
            ELSE s1

\* connect_and_sync: read WELCOME, record the server, derive the session key,
\* then phase 1 of the sync.
I_Welcome(c) ==
    LET rec == conns[c]
        i == rec.ini
        w == Head(rec.r2i)
        got == Recv(rec, "i", 1)
        s1 == record_server(state[i], rec.circle_id, w.f.node_id, AddrAt(rec.res),
                            now[i])
        key == IF w.f.enc_ready
               THEN derive_session_key(rec.i_secret, rec.client_nonce, rec.i_sn)
               ELSE <<>>
    IN
    /\ rec.ipc = "rd_welcome"
    /\ rec.r2i # <<>>
    /\ IF ~Readable(w, <<>>) \/ w.f.t # "WELCOME"
       THEN /\ conns' = [conns EXCEPT ![c] = Close(got, "i")]
            /\ UNCHANGED state
       ELSE /\ lock[i] = NoTask
            /\ state' = [state EXCEPT ![i] = s1]
            /\ conns' = [conns EXCEPT ![c] =
                 [Emit(got, "i", OwnOffer(s1, rec.circle_id, key))
                    EXCEPT !.ipc = "rd_have", !.i_key = key,
                           !.i_rca = w.f.can_anchor]]
    /\ errors' = Logged(c, "i", Readable(w, <<>>) /\ w.f.t # "WELCOME", "rejected")
    /\ UNCHANGED <<loop, relay, call, now, lock, anchor_store, anchor_pull_since, served, started, tui, next_id,
                   synced, pruned, unlocked, applied, seen_tokens, skipped>>

\* A request for every offered id, held or not.
missing_all(incoming_msg_ids, my_msg_ids) ==
    incoming_msg_ids

\* A request for the offered ids this node holds.
missing_held(incoming_msg_ids, my_msg_ids) ==
    incoming_msg_ids \cap my_msg_ids

\* incoming_msg_ids - my_msg_ids of phase 4.
missing_ids(incoming_msg_ids, my_msg_ids) ==
    incoming_msg_ids \ my_msg_ids

\* Phases 2-4: read PEERS and MSGS_HAVE, merge the peers under the lock,
\* request what is missing.
S_Have(c, side) ==
    LET rec == conns[c]
        n == NodeOf(rec, side)
        key == KeyOf(rec, side)
        in == Inbound(rec, side)
        s1 == merge_peers(state[n], rec.circle_id, in[1].f.peers)
        missing == SortedSeq(missing_ids(in[2].f.msg_ids,
                                        message_ids_for_circle(s1, rec.circle_id)))
    IN
    /\ Pc(rec, side) = "rd_have"
    /\ in # <<>>
    /\ IF ~Readable(in[1], key)
       THEN /\ conns' = [conns EXCEPT ![c] = Raise(Recv(rec, side, 1), side)]
            /\ UNCHANGED state
       ELSE /\ Len(in) >= 2
            /\ IF ~Readable(in[2], key)
               THEN /\ conns' = [conns EXCEPT ![c] = Raise(Recv(rec, side, 2), side)]
                    /\ UNCHANGED state
               ELSE IF in[1].f.t # "PEERS" \/ in[2].f.t # "MSGS_HAVE"
               THEN /\ conns' = [conns EXCEPT ![c] =
                          Close(Emit(Recv(rec, side, 2), side,
                                     <<Wire(key, Error("Bad sync frames"))>>), side)]
                    /\ UNCHANGED state
               ELSE /\ lock[n] = NoTask
                    /\ state' = [state EXCEPT ![n] = s1]
                    /\ conns' = [conns EXCEPT ![c] =
                          SetPc(Emit(Recv(rec, side, 2), side,
                                     <<Wire(key, MsgsReq(rec.circle_id, missing))>>),
                                side, "rd_req")]
    /\ errors' = Logged(c, side,
                         /\ Readable(in[1], key)
                         /\ Len(in) >= 2
                         /\ Readable(in[2], key)
                         /\ in[1].f.t # "PEERS" \/ in[2].f.t # "MSGS_HAVE",
                         "Bad sync frames")
    /\ UNCHANGED <<loop, relay, call, now, lock, anchor_store, anchor_pull_since, served, started, tui, next_id,
                   synced, pruned, unlocked, applied, seen_tokens, skipped>>

\* A phase 5 that serves nothing.
send_msgs_none(s, circle_id, they_missing) == <<>>

\* A phase 5 that serves every message of the circle, requested or not.
send_msgs_all(s, circle_id, they_missing) ==
    SelectSeq(s.messages, LAMBDA m : m.circle_id = circle_id)

\* send_msgs of phase 5: the requested messages this node holds in the circle.
send_msgs(s, circle_id, they_missing) ==
    LET held == SelectSeq(they_missing, LAMBDA mid :
                    /\ HasMsg(s.messages, mid)
                    /\ MsgById(s.messages, mid).circle_id = circle_id)
    IN [k \in 1..Len(held) |-> MsgById(s.messages, held[k])]

\* Phase 5: read MSGS_REQ, collect the messages under the lock, send them.
S_Req(c, side) ==
    LET rec == conns[c]
        n == NodeOf(rec, side)
        key == KeyOf(rec, side)
        w == Head(Inbound(rec, side))
        got == Recv(rec, side, 1)
    IN
    /\ Pc(rec, side) = "rd_req"
    /\ Inbound(rec, side) # <<>>
    /\ IF ~Readable(w, key)
       THEN conns' = [conns EXCEPT ![c] = Raise(got, side)]
       ELSE IF w.f.t # "MSGS_REQ"
       THEN conns' = [conns EXCEPT ![c] =
                Close(Emit(got, side, <<Wire(key, Error("Expected MSGS_REQ"))>>), side)]
       ELSE /\ lock[n] = NoTask
            /\ conns' = [conns EXCEPT ![c] =
                 SetPc(Emit(got, side,
                            <<Wire(key, MsgsSend(rec.circle_id,
                                 send_msgs(state[n], rec.circle_id, w.f.msg_ids)))>>),
                       side, "rd_send")]
    /\ errors' = Logged(c, side, Readable(w, key) /\ w.f.t # "MSGS_REQ",
                         "Expected MSGS_REQ")
    /\ UNCHANGED <<loop, relay, call, state, now, lock, anchor_store, anchor_pull_since, served, started, tui, next_id,
                   synced, pruned, unlocked, applied, seen_tokens, skipped>>

\* The envelopes _anchor_push_pull pushes: the most recent non-control
\* messages of the circle, oldest first.
push_envelopes(s, circle_id) ==
    LET mine == SelectSeq(s.messages, LAMBDA m :
                    m.circle_id = circle_id /\ m.channel_id # CONTROL_CHANNEL_ID)
        order == OldestFirst(mine)
        first == IF Len(order) > ANCHOR_PUSH_RECENT
                 THEN Len(order) - ANCHOR_PUSH_RECENT + 1 ELSE 1
    IN [k \in 1..(Len(order) - first + 1) |->
           Envelope(s.circles[circle_id].secret_hex, mine[order[first + k - 1]])]

\* The control messages among those a merge stored (in `after`, not in
\* `before`) whose event it dispatched to an apply function.
Dispatched(before, after) ==
    {after[k].msg_id : k \in {j \in DOMAIN after :
        /\ ~HasMsg(before, after[j].msg_id)
        /\ after[j].channel_id = CONTROL_CHANNEL_ID
        /\ \/ parse_channel_event(after[j].text)
           \/ parse_circle_name_event(after[j].text)
           \/ parse_anchor_announce_event(after[j].text)}}

\* The counts `count` with one more application of each id of `ids`.
Counted(count, ids) ==
    [x \in (DOMAIN count) \cup ids |->
        Get(count, x, 0) + (IF x \in ids THEN 1 ELSE 0)]

\* A sync completed on both ends, on a connection opened after the last post.
SyncedAfter(rec, side) ==
    IF rec.done \cup {side} = {"i", "r"} /\ rec.gen = next_id
    THEN synced \cup {{rec.ini, rec.res}}
    ELSE synced

\* Phase 6: read MSGS_SEND, merge and save under the lock; then the anchor
\* exchange starts (push as initiator, serve as anchor) or the task returns.
S_Send(c, side) ==
    LET rec == conns[c]
        n == NodeOf(rec, side)
        key == KeyOf(rec, side)
        w == Head(Inbound(rec, side))
        got == Recv(rec, side, 1)
        s1 == merge_messages(state[n], rec.circle_id, w.f.messages, now[n])
        s2 == Saved(n, s1)
        merged == [got EXCEPT !.done = @ \cup {side}]
    IN
    /\ Pc(rec, side) = "rd_send"
    /\ Inbound(rec, side) # <<>>
    /\ IF ~Readable(w, key)
       THEN /\ conns' = [conns EXCEPT ![c] = Raise(got, side)]
            /\ UNCHANGED <<state, pruned, synced, skipped, applied>>
       ELSE IF w.f.t # "MSGS_SEND"
       THEN /\ conns' = [conns EXCEPT ![c] =
                  Close(Emit(got, side, <<Wire(key, Error("Expected MSGS_SEND"))>>), side)]
            /\ UNCHANGED <<state, pruned, synced, skipped, applied>>
       ELSE /\ lock[n] = NoTask
            /\ state' = [state EXCEPT ![n] = s2]
            /\ pruned' = pruned \cup Dropped(n, s1)
            /\ synced' = SyncedAfter(rec, side)
            /\ skipped' = skipped \cup Skips(state[n], rec.circle_id, w.f.messages)
            /\ applied' = [applied EXCEPT ![n] =
                  Counted(@, Dispatched(state[n].messages, s1.messages))]
            /\ conns' = [conns EXCEPT ![c] =
                 IF side = "i" /\ rec.i_rca
                 THEN IF rec.circle_id \notin DOMAIN s2.circles
                      THEN Close(merged, side)
                      ELSE SetPc(Emit(merged, side,
                                      <<Wire(key, AnchorPush(rec.circle_id,
                                           push_envelopes(s2, rec.circle_id)))>>),
                                 side, "rd_push_ack")
                 ELSE IF side = "r" /\ s2.node.can_anchor
                 THEN SetPc(merged, side, "rd_push")
                 ELSE Close(merged, side)]
    /\ errors' = Logged(c, side, Readable(w, key) /\ w.f.t # "MSGS_SEND",
                         "Expected MSGS_SEND")
    /\ UNCHANGED <<loop, relay, call, now, lock, anchor_store, anchor_pull_since, served, started, tui, next_id,
                   unlocked, seen_tokens>>

\* A read that finds the connection closed by the peer: EOFError, the task
\* returns and closes its end.
ReadEOF(c, side) ==
    /\ Pc(conns[c], side) \in {"rd_hello", "rd_auth", "rd_challenge", "rd_welcome",
                               "rd_have", "rd_req", "rd_send", "rd_push",
                               "rd_pull", "rd_push_ack", "rd_anchor_msgs"}
    /\ Inbound(conns[c], side) = <<>>
    /\ Pc(conns[c], Other(side)) = "closed"
    /\ conns' = [conns EXCEPT ![c] = Close(conns[c], side)]
    /\ UNCHANGED <<loop, relay, call, state, now, lock, anchor_store, anchor_pull_since, served, started, tui, next_id,
                   synced, pruned, unlocked, applied, seen_tokens, errors, skipped>>

\* time.time() advances on one host.
Tick(n) ==
    /\ now[n] < MaxClock
    /\ now' = [now EXCEPT ![n] = @ + 1]
    /\ UNCHANGED <<loop, relay, call, state, lock, conns, anchor_store, anchor_pull_since, served, started, tui, next_id,
                   synced, pruned, unlocked, applied, seen_tokens, errors, skipped>>

\* ------------------------------------------------------------------------ tui

\* ChatScreen after mount: the circle and channel shown, and _seen.
Screen(circle_id, channel) == [circle |-> circle_id, channel |-> channel, seen |-> {}]

\* ChatScreen._send_message: build and sign the message, store and save it
\* under the lock, mark it seen.
SendMessage(n, body) ==
    LET circle_id == tui[n].circle
        msg_id == next_id + 1
        unsigned == ChatMessage(msg_id, circle_id, tui[n].channel,
                                state[n].node.node_id, state[n].node.display_name,
                                now[n], PlainText(body))
        msg == [unsigned EXCEPT !.mac =
                   make_message_mac(state[n].circles[circle_id].secret_hex, unsigned)]
        s1 == [state[n] EXCEPT !.messages = Append(@, msg)]
    IN
    /\ next_id < MaxMsgs
    /\ circle_id \in DOMAIN state[n].circles
    /\ lock[n] = NoTask
    /\ state' = [state EXCEPT ![n] = Saved(n, s1)]
    /\ pruned' = pruned \cup Dropped(n, s1)
    /\ tui' = [tui EXCEPT ![n].seen = @ \cup {msg_id}]
    /\ next_id' = msg_id
    /\ synced' = {}
    /\ UNCHANGED <<loop, relay, call, now, lock, conns, anchor_store, anchor_pull_since, served, started,
                   unlocked, applied, seen_tokens, errors, skipped>>

\* ------------------------------------------------------------- specifications

\* Every node has joined circle c1 (secret s1) at time 0; `anchors` are the
\* nodes configured with can_anchor.
InitJoined(anchors) ==
    /\ state = [n \in Nodes |-> with_circle(DefaultState(n, n \in anchors), "s1", 0)]
    /\ now = [n \in Nodes |-> 0]
    /\ lock = [n \in Nodes |-> NoTask]
    /\ conns = [c \in ConnIds |-> FreshConn]
    /\ anchor_store = [n \in Nodes |-> EmptyDict]
    /\ anchor_pull_since = [n \in Nodes |-> EmptyDict]
    /\ tui = [n \in Nodes |-> Screen("c1", "general")]
    /\ next_id = 0
    /\ synced = {}
    /\ pruned = {}
    /\ unlocked = {}
    /\ applied = [n \in Nodes |-> EmptyDict]
    /\ seen_tokens = {}
    /\ skipped = {}
    /\ served = EmptyDict
    /\ started = EmptyDict
    /\ loop = LoopOff
    /\ relay = RelayOff
    /\ call = NoCall
    /\ errors = EmptyDict

\* A message of the circle as its author signed it.
Signed(secret_hex, msg) == [msg EXCEPT !.mac = make_message_mac(secret_hex, msg)]

\* n1's first post, made at time 0.
FirstPost ==
    Signed("s1", ChatMessage(1, "c1", "general", "n1", "anon", 0, PlainText("hi")))

\* The anti-entropy protocol among the members of one circle, one connection
\* at a time, on hosts whose clocks run apart. n1 has posted once, at time 0.
InitSync ==
    /\ state = [n \in Nodes |->
         IF n = "n1"
         THEN [with_circle(DefaultState(n, FALSE), "s1", 0)
                 EXCEPT !.messages = <<FirstPost>>]
         ELSE with_circle(DefaultState(n, FALSE), "s1", 0)]
    /\ now = [n \in Nodes |-> 0]
    /\ lock = [n \in Nodes |-> NoTask]
    /\ conns = [c \in ConnIds |-> FreshConn]
    /\ anchor_store = [n \in Nodes |-> EmptyDict]
    /\ anchor_pull_since = [n \in Nodes |-> EmptyDict]
    /\ tui = [n \in Nodes |-> Screen("c1", "general")]
    /\ next_id = 1
    /\ synced = {}
    /\ pruned = {}
    /\ unlocked = {}
    /\ applied = [n \in Nodes |-> EmptyDict]
    /\ seen_tokens = {}
    /\ skipped = {}
    /\ served = EmptyDict
    /\ started = EmptyDict
    /\ loop = LoopOff
    /\ relay = RelayOff
    /\ call = NoCall
    /\ errors = EmptyDict

NextSync ==
    \/ \E c \in ConnIds, i \in Nodes : \E r \in Nodes \ {i} :
          OpenCount = 0 /\ Dial(c, i, r, "c1")
    \/ \E c \in ConnIds : R_Hello(c)
    \/ \E c \in ConnIds : I_Challenge(c)
    \/ \E c \in ConnIds : R_Auth(c)
    \/ \E c \in ConnIds : R_SyncStart(c)
    \/ \E c \in ConnIds : I_Welcome(c)
    \/ \E c \in ConnIds, side \in {"i", "r"} : S_Have(c, side)
    \/ \E c \in ConnIds, side \in {"i", "r"} : S_Req(c, side)
    \/ \E c \in ConnIds, side \in {"i", "r"} : S_Send(c, side)
    \/ \E n \in Nodes : Tick(n)

SpecSync == InitSync /\ [][NextSync]_vars

\* -------------------------------------------------- a host without the secret

\* The nonces a CHALLENGE of ADV can carry: its own, or one it was issued.
AdvNonces == {<<"sn", c>> : c \in ConnIds}

\* What ADV can put into HELLO_AUTH: a token it was sent, or one it computes
\* from a secret it holds ("sx").
AdvTokens(node_id, circle_id, nonce) ==
    seen_tokens \cup {make_token("sx", node_id, circle_id, nonce), <<>>}

\* ADV opens a connection to r and claims to be node_id; it sends no nonce.
AdvDial(c, r, node_id, circle_id, listen_addr) ==
    /\ conns[c].ipc = "idle"
    /\ \A d \in ConnIds : d < c => conns[d].ipc # "idle"
    /\ OpenCount < MaxOpen
    /\ conns' = [conns EXCEPT ![c] =
         [FreshConn EXCEPT
            !.ini = ADV, !.res = r, !.circle_id = circle_id,
            !.ipc = "adv", !.rpc = "rd_hello",
            !.i2r = <<Wire(<<>>, Hello(node_id, circle_id, listen_addr, <<>>, FALSE))>>]]
    /\ started' = Started(c, ADV, r)
    /\ UNCHANGED <<loop, relay, call, state, now, lock, anchor_store, anchor_pull_since, served, tui, next_id,
                   synced, pruned, unlocked, applied, seen_tokens, errors, skipped>>

\* ADV writes a burst of frames on a connection it is an end of, once the
\* other end has read the previous burst; MaxAdvFrames bursts per connection.
AdvWrite(c, burst) ==
    LET rec == conns[c] IN
    /\ rec.sent < MaxAdvFrames
    /\ \/ /\ rec.ini = ADV /\ rec.rpc \notin {"idle", "closed"}
          /\ rec.i2r = <<>>
          /\ conns' = [conns EXCEPT ![c] =
                [rec EXCEPT !.i2r = burst, !.sent = @ + 1]]
       \/ /\ rec.res = ADV /\ rec.ipc \notin {"idle", "closed"}
          /\ rec.r2i = <<>>
          /\ conns' = [conns EXCEPT ![c] =
                [rec EXCEPT !.r2i = burst, !.sent = @ + 1]]
    /\ UNCHANGED <<loop, relay, call, state, now, lock, anchor_store, anchor_pull_since, served, started, tui, next_id,
                   synced, pruned, unlocked, applied, seen_tokens, errors, skipped>>

\* ADV closes its end.
AdvClose(c) ==
    LET rec == conns[c] IN
    /\ \/ rec.ini = ADV /\ rec.rpc \notin {"idle", "closed"}
       \/ rec.res = ADV /\ rec.ipc \notin {"idle", "closed"}
    /\ conns' = [conns EXCEPT ![c] =
         IF rec.ini = ADV THEN [rec EXCEPT !.ipc = "closed", !.r2i = <<>>]
         ELSE [rec EXCEPT !.rpc = "closed", !.i2r = <<>>]]
    /\ UNCHANGED <<loop, relay, call, state, now, lock, anchor_store, anchor_pull_since, served, started, tui, next_id,
                   synced, pruned, unlocked, applied, seen_tokens, errors, skipped>>

\* What ADV offers as messages of c1: unsigned, signed or sealed with its own
\* secret, and a genuine message with the text replaced.
Forged ==
    LET base == ChatMessage(7, "c1", "general", "n2", "eve", 0, PlainText("forged")) IN
    { base,
      Signed("sx", base),
      [base EXCEPT !.enc = encrypt_message_fields("sx", base)],
      [FirstPost EXCEPT !.text = PlainText("forged")],
      [FirstPost EXCEPT !.msg_id = 7] }

\* The bursts ADV writes on connection c. A handler only tests the tag of a
\* frame before it reads its fields, so at each stage ADV chooses among the
\* frames of the tag the reader expects and one frame of another tag.
AdvBursts(c) ==
    LET rec == conns[c]
        pc == IF rec.ini = ADV THEN rec.rpc ELSE rec.ipc
    IN
    {<<Wire(<<>>, Error("junk"))>>}
    \cup
    CASE pc = "rd_challenge" -> {<<Wire(<<>>, Challenge(nonce))>> : nonce \in AdvNonces}
      [] pc = "rd_auth" ->
           {<<Wire(<<>>, HelloAuth(token))>> :
               token \in AdvTokens(rec.peer_node_id, rec.circle_id, rec.server_nonce)}
      [] pc = "rd_welcome" -> {<<Wire(<<>>, Welcome(ADV, FALSE, FALSE))>>}
      [] pc = "rd_have" ->
           {<<Wire(<<>>, PeersFrame("c1", <<>>)), Wire(<<>>, MsgsHave("c1", {}))>>}
      [] pc = "rd_req" -> {<<Wire(<<>>, MsgsReq("c1", <<1>>))>>}
      [] pc = "rd_send" ->
           {<<Wire(<<>>, MsgsSend("c1", <<m>>))>> : m \in Forged \cup {FirstPost}}
      [] OTHER -> {}

\* n1 and n2 are members of c1, n3 of another circle; n1 has posted once.
\* Members dial each other, n3 and ADV; ADV dials the members.
InitAdv ==
    /\ state = [n \in Nodes |->
         IF n = "n3" THEN with_circle(DefaultState(n, FALSE), "s2", 0)
         ELSE IF n = "n1"
         THEN [with_circle(DefaultState(n, FALSE), "s1", 0)
                 EXCEPT !.messages = <<FirstPost>>]
         ELSE with_circle(DefaultState(n, FALSE), "s1", 0)]
    /\ now = [n \in Nodes |-> 0]
    /\ lock = [n \in Nodes |-> NoTask]
    /\ conns = [c \in ConnIds |-> FreshConn]
    /\ anchor_store = [n \in Nodes |-> EmptyDict]
    /\ anchor_pull_since = [n \in Nodes |-> EmptyDict]
    /\ tui = [n \in Nodes |-> Screen(IF n = "n3" THEN "c2" ELSE "c1", "general")]
    /\ next_id = 1
    /\ synced = {}
    /\ pruned = {}
    /\ unlocked = {}
    /\ applied = [n \in Nodes |-> EmptyDict]
    /\ seen_tokens = {}
    /\ skipped = {}
    /\ served = EmptyDict
    /\ started = EmptyDict
    /\ loop = LoopOff
    /\ relay = RelayOff
    /\ call = NoCall
    /\ errors = EmptyDict

NextAdv ==
    \/ \E c \in ConnIds : Dial(c, "n1", ADV, "c1")
    \/ \E c \in ConnIds : Dial(c, "n2", "n1", "c1")
    \/ \E c \in ConnIds, node_id \in {ADV, "n1"}, circle_id \in {"c1", "cx"} :
          AdvDial(c, "n2", node_id, circle_id, "adv:p")
    \/ \E c \in ConnIds : \E burst \in AdvBursts(c) : AdvWrite(c, burst)
    \/ \E c \in ConnIds : R_Hello(c)
    \/ \E c \in ConnIds : R_ErrDone(c)
    \/ \E c \in ConnIds : I_Challenge(c)
    \/ \E c \in ConnIds : R_Auth(c)
    \/ \E c \in ConnIds : R_SyncStart(c)
    \/ \E c \in ConnIds : I_Welcome(c)
    \/ \E c \in ConnIds, side \in {"i", "r"} : S_Have(c, side)
    \/ \E c \in ConnIds, side \in {"i", "r"} : S_Req(c, side)
    \/ \E c \in ConnIds, side \in {"i", "r"} : S_Send(c, side)

SpecAdv == InitAdv /\ [][NextAdv]_vars

\* ------------------------------------------------------------ claims: SpecAdv

\* The writes of the nodes that are still unread.
NodeFrames ==
    UNION {(IF conns[c].ini \in Nodes THEN Range(conns[c].i2r) ELSE {})
           \cup (IF conns[c].res \in Nodes THEN Range(conns[c].r2i) ELSE {}) :
           c \in ConnIds}

ValidMac(m) == m.mac = make_message_mac("s1", m)

\* C2 - Forgery rejection: in every reachable state, every message in a
\* node's store carries the MAC of the circle secret over its fields; merging
\* a message that is not signed or sealed with the secret, however often it is
\* offered, leaves the node's state as it is; and every MSGS_SEND a node
\* writes carries only messages whose MAC verifies.
C2_ForgeryRejected ==
    /\ \A n \in {"n1", "n2"} : \A k \in DOMAIN state[n].messages :
          ValidMac(state[n].messages[k])
    /\ \A n \in {"n1", "n2"} : \A md \in Forged :
          /\ merge_messages(state[n], "c1", <<md, md>>, now[n]) = state[n]
          /\ merge_relay_messages(state[n], "c1", <<md, md>>) = state[n]
    /\ \A w \in NodeFrames :
          w.f.t = "MSGS_SEND" =>
             \A k \in DOMAIN w.f.messages : ValidMac(w.f.messages[k])

\* C2 witness: n2 has refused a message ADV offered, has then served a
\* MSGS_SEND of its own, and holds n1's post.
C2_Witness ==
    /\ <<"n2", "refused">> \in skipped
    /\ HasMsg(state["n2"].messages, 1)
    /\ \E w \in NodeFrames : w.f.t = "MSGS_SEND" /\ w.f.messages # <<>>

\* C6 - No I/O under the lock: a task that is suspended in a frame read or
\* write does not hold the node's lock.
C6_NoIOUnderLock ==
    \A c \in ConnIds : \A side \in {"i", "r"} :
       Pc(conns[c], side) \notin {"idle", "closed", "adv"}
          => lock[NodeOf(conns[c], side)] # Task(c, side)

\* The token that authorises the HELLO of connection c at its responder.
ExpectedToken(c) ==
    make_token(state[conns[c].res].circles[conns[c].circle_id].secret_hex,
               conns[c].peer_node_id, conns[c].circle_id, <<"sn", c>>)

\* The step of connection c reads a HELLO_AUTH whose token is not the
\* expected one, the circle being known.
BadAuthStep(c) ==
    /\ conns[c].rpc = "rd_auth"
    /\ conns'[c] # conns[c]
    /\ conns[c].i2r # <<>>
    /\ Readable(Head(conns[c].i2r), <<>>)
    /\ Head(conns[c].i2r).f.t = "HELLO_AUTH"
    /\ conns[c].circle_id \in DOMAIN state[conns[c].res].circles
    /\ Head(conns[c].i2r).f.token # ExpectedToken(c)

\* C7 - Handshake authorization: a connection on which WELCOME was sent
\* carries the token make_token(secret, HELLO.node_id, HELLO.circle_id, the
\* nonce issued on this connection); a HELLO_AUTH with any other token
\* is answered by ERROR "Auth failed", the task goes on to close, no WELCOME
\* is sent and the node's state (peers, circle_members) does not change.
C7_HandshakeAuthorized ==
    /\ [](\A c \in ConnIds :
            conns[c].welcomed =>
               /\ conns[c].server_nonce = <<"sn", c>>
               /\ conns[c].token = ExpectedToken(c))
    /\ [][\A c \in ConnIds :
            BadAuthStep(c) =>
               /\ state' = state
               /\ conns'[c].rpc = "wr_err"
               /\ ~conns'[c].welcomed
               /\ conns'[c].r2i # <<>>
               /\ conns'[c].r2i[Len(conns'[c].r2i)] = Wire(<<>>, Error("Auth failed"))]_vars

\* C7 witness: a token replayed from another connection has been refused
\* while a correct one has been welcomed.
C7_Witness ==
    /\ \E c \in ConnIds :
          /\ conns[c].rpc = "wr_err"
          /\ conns[c].token \in seen_tokens
          /\ conns[c].r2i = <<Wire(<<>>, Error("Auth failed"))>>
    /\ \E c \in ConnIds : conns[c].welcomed

\* ----------------------------------------------------------- claims: SpecSync

AllPairs == {{a, b} : a, b \in Nodes} \ {{a} : a \in Nodes}

\* C1 (as stated) - Convergence: once every pair of nodes of the circle has
\* completed a sync that began after message M was posted, and some node
\* holds M, every node holds M.
C1_Convergence ==
    \A id \in 1..next_id :
       (synced = AllPairs /\ \E n \in Nodes : HasMsg(state[n].messages, id))
          => \A n \in Nodes : HasMsg(state[n].messages, id)

\* C1 (amended) - Convergence up to retention: once every pair of nodes of the
\* circle has completed a sync that began after message M was posted, every
\* node holds M, unless some node's prune_messages has dropped M (older than
\* MESSAGE_MAX_AGE_S by that node's clock, or beyond the per-circle cap).
C1_ConvergenceUnlessPruned ==
    \A id \in 1..next_id :
       (synced = AllPairs /\ id \notin pruned)
          => \A n \in Nodes : HasMsg(state[n].messages, id)

\* C1 witness: every pair has synced, nothing was pruned, all hold the post.
C1_Witness ==
    /\ synced = AllPairs
    /\ pruned = {}
    /\ \A n \in Nodes : HasMsg(state[n].messages, 1)

\* C4 - last_seen is monotone: no step lowers the last_seen a node records
\* for a peer.
C4_LastSeenMonotone ==
    [][\A n \in Nodes : \A p \in DOMAIN state[n].peers :
          p \in DOMAIN state'[n].peers =>
             state'[n].peers[p].last_seen >= state[n].peers[p].last_seen]_vars

\* ------------------------------------------------------------------ SpecMerge

\* `/channel create <channel_id> <access_mode>` of chat.interactive_chat: the
\* channel, its maps and the signed create event, before the save.
channel_create(s, circle_id, channel_id, access_mode, msg_id, now_ts) ==
    LET event == [NoText EXCEPT !.t = "CHANNEL_EVT", !.op = "create",
                     !.circle_id = circle_id, !.channel_id = channel_id,
                     !.access_mode = access_mode,
                     !.actor_node_id = s.node.node_id,
                     !.created_by = s.node.node_id, !.created_ts = now_ts]
        s1 == [s EXCEPT
                 !.channels[circle_id] = Put(@, channel_id,
                     Channel(channel_id, circle_id, s.node.node_id, now_ts,
                             access_mode, "")),
                 !.channel_members[circle_id] =
                     Put(@, channel_id, Get(@, channel_id, {}) \cup {s.node.node_id}),
                 !.channel_requests[circle_id] = SetDefault(@, channel_id, {})]
    IN [s1 EXCEPT !.messages =
           Append(@, make_control_message(s1, circle_id, msg_id, event, now_ts))]

\* A signed __control message of another member.
ControlBy(msg_id, author_node_id, event) ==
    Signed("s1", ChatMessage(msg_id, "c1", CONTROL_CHANNEL_ID, author_node_id, "bob",
                             0, [event EXCEPT !.t = "CHANNEL_EVT", !.circle_id = "c1"]))

\* What a member running other software offers n1: a chat message and a
\* second message of the same id, n3's request for #plan, n2's approval of it
\* (n1 owns #plan), and a second event of the approval's id.
MemberMsgs ==
    { Signed("s1", ChatMessage(2, "c1", "general", "n2", "bob", 0, PlainText("hi"))),
      Signed("s1", ChatMessage(2, "c1", "general", "n2", "eve", 0, PlainText("bye"))),
      ControlBy(3, "n3", [NoText EXCEPT !.op = "request", !.channel_id = "plan",
                             !.node_id = "n3", !.actor_node_id = "n3"]),
      ControlBy(4, "n2", [NoText EXCEPT !.op = "approve", !.channel_id = "plan",
                             !.target_node_id = "n3", !.actor_node_id = "n2"]),
      ControlBy(4, "n2", [NoText EXCEPT !.op = "leave", !.channel_id = "plan",
                             !.node_id = "n1", !.actor_node_id = "n2"]) }

\* The frames of a member that answers n1's dial as the protocol asks.
MemberBursts(c) ==
    LET pc == conns[c].ipc IN
    CASE pc = "rd_challenge" -> {<<Wire(<<>>, Challenge(<<"sn", c>>))>>}
      [] pc = "rd_welcome" -> {<<Wire(<<>>, Welcome("n2", FALSE, FALSE))>>}
      [] pc = "rd_have" ->
           {<<Wire(<<>>, PeersFrame("c1", <<>>)), Wire(<<>>, MsgsHave("c1", {}))>>}
      [] pc = "rd_req" -> {<<Wire(<<>>, MsgsReq("c1", <<>>))>>}
      [] pc = "rd_send" -> {<<Wire(<<>>, MsgsSend("c1", <<m>>))>> : m \in MemberMsgs}
      [] OTHER -> {}

\* n1 has created the invite-only channel #plan at time 0 and syncs with a
\* member that runs other software.
InitMerge ==
    /\ state = [n \in Nodes |->
         IF n = "n1"
         THEN channel_create(with_circle(DefaultState(n, FALSE), "s1", 0),
                             "c1", "plan", "invite", 1, 0)
         ELSE with_circle(DefaultState(n, FALSE), "s1", 0)]
    /\ now = [n \in Nodes |-> 0]
    /\ lock = [n \in Nodes |-> NoTask]
    /\ conns = [c \in ConnIds |-> FreshConn]
    /\ anchor_store = [n \in Nodes |-> EmptyDict]
    /\ anchor_pull_since = [n \in Nodes |-> EmptyDict]
    /\ tui = [n \in Nodes |-> Screen("c1", "general")]
    /\ next_id = 1
    /\ synced = {}
    /\ pruned = {}
    /\ unlocked = {}
    /\ applied = [n \in Nodes |-> EmptyDict]
    /\ seen_tokens = {}
    /\ skipped = {}
    /\ served = EmptyDict
    /\ started = EmptyDict
    /\ loop = LoopOff
    /\ relay = RelayOff
    /\ call = NoCall
    /\ errors = EmptyDict

NextMerge ==
    \/ \E c \in ConnIds : Dial(c, "n1", ADV, "c1")
    \/ \E c \in ConnIds : \E burst \in MemberBursts(c) : AdvWrite(c, burst)
    \/ \E c \in ConnIds : I_Challenge(c)
    \/ \E c \in ConnIds : I_Welcome(c)
    \/ \E c \in ConnIds : S_Have(c, "i")
    \/ \E c \in ConnIds : S_Req(c, "i")
    \/ \E c \in ConnIds : S_Send(c, "i")
    \/ Tick("n1")

SpecMerge == InitMerge /\ [][NextMerge]_vars

\* C3 - Reinsertion is a no-op: for a node state the program reaches and an
\* offered message whose msg_id is already stored, _merge_messages and
\* merge_relay_messages return the state unchanged (stored fields, display
\* names, channel tables, anchor records), also when the offered copy has
\* other content under a valid MAC.
C3_ReinsertionNoOp ==
    \A md \in MemberMsgs :
       HasMsg(state["n1"].messages, md.msg_id) =>
          /\ merge_messages(state["n1"], "c1", <<md>>, now["n1"]) = state["n1"]
          /\ merge_relay_messages(state["n1"], "c1", <<md>>) = state["n1"]

\* C3 witness: n1's merge has been offered, and has skipped, a validly signed
\* message whose id it had stored with other content.
C3_Witness ==
    /\ <<"n1", "changed_duplicate">> \in skipped
    /\ \E md \in MemberMsgs :
          /\ HasMsg(state["n1"].messages, md.msg_id)
          /\ MsgById(state["n1"].messages, md.msg_id) # md

\* The step stores the single new message m at node n, and m is an approve
\* event for an existing channel that neither its author nor its actor owns.
StoresForeignApprove(n, m) ==
    LET ch == Lower(m.text.channel_id) IN
    /\ ~HasMsg(state[n].messages, m.msg_id)
    /\ MsgIdsOf(state'[n].messages) \ MsgIdsOf(state[n].messages) = {m.msg_id}
    /\ m.channel_id = CONTROL_CHANNEL_ID
    /\ parse_channel_event(m.text)
    /\ m.text.op = "approve"
    /\ m.circle_id \in DOMAIN state[n].channels
    /\ ch \in DOMAIN state[n].channels[m.circle_id]
    /\ state[n].channels[m.circle_id][ch].created_by
          \notin {m.author_node_id, m.text.actor_node_id}

\* C8 - A non-owner's approve is ignored: a step in which a node merges an
\* approve event that does not originate from the channel's created_by
\* changes neither the channel's members nor its pending requests.
C8_NonOwnerApproveIgnored ==
    [][\A n \in Nodes : \A k \in DOMAIN state'[n].messages :
          LET m == state'[n].messages[k]
              ch == Lower(m.text.channel_id)
          IN StoresForeignApprove(n, m) =>
                /\ state'[n].channel_members[m.circle_id][ch]
                      = state[n].channel_members[m.circle_id][ch]
                /\ state'[n].channel_requests[m.circle_id][ch]
                      = state[n].channel_requests[m.circle_id][ch]]_vars

\* -------------------------------------------------------------------- SpecTui

\* ChatScreen._process_control_events over the snapshot
\* list(self.state.messages.values()), from position i on. acc is the state,
\* _seen, the ids whose event was applied and the ids the saves pruned.
RECURSIVE process_control_events(_, _, _, _, _)
process_control_events(acc, snapshot, i, circle_id, now_ts) ==
    IF i > Len(snapshot) THEN acc
    ELSE
      LET m == snapshot[i]
          seen1 == [acc EXCEPT !.seen = @ \cup {m.msg_id}]
          s1 == IF parse_channel_event(m.text)
                THEN apply_channel_event(acc.s, circle_id, m.text, now_ts)
                ELSE apply_circle_name_event(acc.s, circle_id, m.text)
          s2 == IF parse_channel_event(m.text) \/ s1 # acc.s
                THEN save_state(s1, now_ts) ELSE s1
      IN
      IF \/ m.circle_id # circle_id
         \/ m.channel_id # CONTROL_CHANNEL_ID
         \/ m.msg_id \in acc.seen
      THEN process_control_events(acc, snapshot, i + 1, circle_id, now_ts)
      ELSE IF parse_channel_event(m.text) \/ parse_circle_name_event(m.text)
      THEN process_control_events(
               [seen1 EXCEPT !.s = s2, !.ids = @ \cup {m.msg_id},
                             !.dropped = @ \cup (MsgIdsOf(s1.messages)
                                                   \ MsgIdsOf(s2.messages))],
               snapshot, i + 1, circle_id, now_ts)
      ELSE process_control_events(seen1, snapshot, i + 1, circle_id, now_ts)

\* ChatScreen._poll_new_messages (the 1 s timer): process the control events,
\* then show and mark seen the new messages of the current channel. It takes
\* no lock. A poll that finds nothing new is a stuttering step.
Poll(n) ==
    LET circle_id == tui[n].circle
        r == process_control_events(
                 [s |-> state[n], seen |-> tui[n].seen, ids |-> {}, dropped |-> {}],
                 state[n].messages, 1, circle_id, now[n])
        visible == {r.s.messages[k].msg_id : k \in {j \in DOMAIN r.s.messages :
                       /\ r.s.messages[j].circle_id = circle_id
                       /\ r.s.messages[j].channel_id = tui[n].channel}}
    IN
    /\ circle_id # ""
    /\ r.seen \cup visible # tui[n].seen
    /\ state' = [state EXCEPT ![n] = r.s]
    /\ tui' = [tui EXCEPT ![n].seen = r.seen \cup visible]
    /\ applied' = [applied EXCEPT ![n] = Counted(@, r.ids)]
    /\ pruned' = pruned \cup r.dropped
    /\ unlocked' = IF r.ids # {} THEN unlocked \cup {"_process_control_events"}
                   ELSE unlocked
    /\ UNCHANGED <<loop, relay, call, now, lock, conns, anchor_store, anchor_pull_since, served, started, next_id,
                   synced, seen_tokens, errors, skipped>>

\* `/channel create <channel_id> <access_mode>` of the TUI: the channel and the
\* create event are written outside the lock, save_state runs under it. The
\* command is given while no task holds the lock.
ChannelCreate(n, channel_id, access_mode) ==
    LET circle_id == tui[n].circle
        msg_id == next_id + 1
        s0 == ensure_default_channel(state[n], circle_id, now[n])
        s1 == channel_create(s0, circle_id, channel_id, access_mode, msg_id, now[n])
    IN
    /\ next_id < MaxMsgs
    /\ circle_id \in DOMAIN state[n].circles
    /\ channel_id \notin DOMAIN s0.channels[circle_id]
    /\ lock[n] = NoTask
    /\ state' = [state EXCEPT ![n] = Saved(n, s1)]
    /\ pruned' = pruned \cup Dropped(n, s1)
    /\ tui' = [tui EXCEPT ![n].seen = @ \cup {msg_id}]
    /\ next_id' = msg_id
    /\ synced' = {}
    /\ unlocked' = unlocked \cup {"_channel_cmd"}
    /\ UNCHANGED <<loop, relay, call, now, lock, conns, anchor_store, anchor_pull_since, served, started, applied,
                   seen_tokens, errors, skipped>>

\* `/circle name <new_name>` of the TUI: rename, save_state and the queued
\* CIRCLE_NAME_EVT, none of it under the lock.
CircleName(n, new_name) ==
    LET circle_id == tui[n].circle
        msg_id == next_id + 1
        s1 == save_state([state[n] EXCEPT !.circles[circle_id].name = new_name], now[n])
        event == [NoText EXCEPT !.t = "CIRCLE_NAME_EVT", !.circle_id = circle_id,
                                !.name = new_name]
        s2 == [s1 EXCEPT !.messages =
                  Append(@, make_control_message(s1, circle_id, msg_id, event, now[n]))]
    IN
    /\ next_id < MaxMsgs
    /\ circle_id \in DOMAIN state[n].circles
    /\ state' = [state EXCEPT ![n] = s2]
    /\ pruned' = pruned \cup (MsgIdsOf(state[n].messages) \ MsgIdsOf(s1.messages))
    /\ tui' = [tui EXCEPT ![n].seen = @ \cup {msg_id}]
    /\ next_id' = msg_id
    /\ synced' = {}
    /\ unlocked' = unlocked \cup {"_circle_mgmt_cmd"}
    /\ UNCHANGED <<loop, relay, call, now, lock, conns, anchor_store, anchor_pull_since, served, started, applied,
                   seen_tokens, errors, skipped>>

\* n2 has created the public channel #plan at time 0. n3 syncs with n2; n1
\* syncs with n2 and with n3, possibly at the same time (the sync loop of n1
\* runs beside a /sync of its chat screen); n1's chat screen polls and takes
\* one command between the steps of the syncs.
InitTui ==
    /\ state = [n \in Nodes |->
         IF n = "n2"
         THEN channel_create(with_circle(DefaultState(n, FALSE), "s1", 0),
                             "c1", "plan", "public", 1, 0)
         ELSE with_circle(DefaultState(n, FALSE), "s1", 0)]
    /\ now = [n \in Nodes |-> 0]
    /\ lock = [n \in Nodes |-> NoTask]
    /\ conns = [c \in ConnIds |-> FreshConn]
    /\ anchor_store = [n \in Nodes |-> EmptyDict]
    /\ anchor_pull_since = [n \in Nodes |-> EmptyDict]
    /\ tui = [n \in Nodes |-> Screen("c1", "general")]
    /\ next_id = 1
    /\ synced = {}
    /\ pruned = {}
    /\ unlocked = {}
    /\ applied = [n \in Nodes |-> EmptyDict]
    /\ seen_tokens = {}
    /\ skipped = {}
    /\ served = EmptyDict
    /\ started = EmptyDict
    /\ loop = LoopOff
    /\ relay = RelayOff
    /\ call = NoCall
    /\ errors = EmptyDict

NextTui ==
    \/ \E c \in ConnIds : OpenCount = 0 /\ Dial(c, "n3", "n2", "c1")
    \/ \E c \in ConnIds, r \in {"n2", "n3"} :
          /\ \A d \in ConnIds : Open(d) => conns[d].ini = "n1" /\ conns[d].res # r
          /\ Dial(c, "n1", r, "c1")
    \/ \E c \in ConnIds : R_Hello(c)
    \/ \E c \in ConnIds : I_Challenge(c)
    \/ \E c \in ConnIds : R_Auth(c)
    \/ \E c \in ConnIds : R_SyncStart(c)
    \/ \E c \in ConnIds : I_Welcome(c)
    \/ \E c \in ConnIds, side \in {"i", "r"} : S_Have(c, side)
    \/ \E c \in ConnIds, side \in {"i", "r"} : S_Req(c, side)
    \/ \E c \in ConnIds, side \in {"i", "r"} : S_Send(c, side)
    \/ Poll("n1")
    \/ next_id = 1 /\ SendMessage("n1", "hi")
    \/ next_id = 1 /\ ChannelCreate("n1", "ops", "public")
    \/ next_id = 1 /\ CircleName("n1", "home")

SpecTui == InitTui /\ [][NextTui]_vars

\* C5 - Mutations under the lock: no code site has mutated the node state
\* (messages, peers, members, circles, channel tables, display names)
\* outside `async with self._lock`.
C5_MutationsUnderLock == unlocked = {}

\* C9 - Exactly-once merge: every msg_id is stored once, and the control
\* event of a message is applied to the node's state at most once.
C9_ExactlyOnce ==
    \A n \in Nodes :
       /\ Cardinality(MsgIdsOf(state[n].messages)) = Len(state[n].messages)
       /\ \A id \in DOMAIN applied[n] : applied[n][id] <= 1

\* ------------------------------------------------------------------ SpecAnchor

\* The loop of _anchor_serve over the pushed envelopes: store each one that
\* has a msg_id.
RECURSIVE store_pushed(_, _, _)
store_pushed(circle_store, envelopes, i) ==
    IF i > Len(envelopes) THEN circle_store
    ELSE store_pushed(
             IF envelopes[i].msg_id # 0
             THEN store_anchor_envelope(circle_store, envelopes[i].msg_id, envelopes[i])
             ELSE circle_store,
             envelopes, i + 1)

\* _anchor_serve, first read: on ANCHOR_PUSH store and prune under the lock,
\* acknowledge and wait for ANCHOR_PULL; on any other frame return.
A_ServePush(c) ==
    LET rec == conns[c]
        n == rec.res
        w == Head(rec.i2r)
        got == Recv(rec, "r", 1)
        before == Get(anchor_store[n], rec.circle_id, <<>>)
        after == prune_anchor_store(store_pushed(before, w.f.envelopes, 1), now[n])
    IN
    /\ rec.rpc = "rd_push"
    /\ rec.i2r # <<>>
    /\ IF ~Readable(w, rec.r_key)
       THEN /\ conns' = [conns EXCEPT ![c] = Raise(got, "r")]
            /\ UNCHANGED anchor_store
       ELSE IF w.f.t # "ANCHOR_PUSH"
       THEN /\ conns' = [conns EXCEPT ![c] = Close(got, "r")]
            /\ UNCHANGED anchor_store
       ELSE /\ lock[n] = NoTask
            /\ anchor_store' = [anchor_store EXCEPT ![n] =
                 IF \/ rec.circle_id \in DOMAIN @
                    \/ \E i \in DOMAIN w.f.envelopes : w.f.envelopes[i].msg_id # 0
                 THEN Put(@, rec.circle_id, after) ELSE @]
            /\ conns' = [conns EXCEPT ![c] =
                 SetPc(Emit(got, "r",
                            <<Wire(rec.r_key, AnchorPushAck(Len(w.f.envelopes)))>>),
                       "r", "rd_pull")]
    /\ UNCHANGED <<loop, relay, call, state, now, lock, anchor_pull_since, served, started, tui, next_id,
                   synced, pruned, unlocked, applied, seen_tokens, errors, skipped>>

\* A pull that also returns the envelopes created at `since`.
to_send_from(circle_store, since) ==
    LET newer == SelectSeq(circle_store, LAMBDA env : env.created_ts >= since)
    IN SubSeq(newer, 1, IF Len(newer) > ANCHOR_PULL_LIMIT
                        THEN ANCHOR_PULL_LIMIT ELSE Len(newer))

\* to_send of _anchor_serve: the stored envelopes with created_ts > since, in
\* insertion order, at most ANCHOR_PULL_LIMIT.
to_send_since(circle_store, since) ==
    LET newer == SelectSeq(circle_store, LAMBDA env : env.created_ts > since)
    IN SubSeq(newer, 1, IF Len(newer) > ANCHOR_PULL_LIMIT
                        THEN ANCHOR_PULL_LIMIT ELSE Len(newer))

\* _anchor_serve, second read: on ANCHOR_PULL send the stored envelopes newer
\* than `since`, at most ANCHOR_PULL_LIMIT, with the anchor's time.
A_ServePull(c) ==
    LET rec == conns[c]
        n == rec.res
        w == Head(rec.i2r)
        got == Recv(rec, "r", 1)
        to_send == to_send_since(Get(anchor_store[n], rec.circle_id, <<>>), w.f.since)
    IN
    /\ rec.rpc = "rd_pull"
    /\ rec.i2r # <<>>
    /\ IF ~Readable(w, rec.r_key)
       THEN conns' = [conns EXCEPT ![c] = Raise(got, "r")]
       ELSE IF w.f.t # "ANCHOR_PULL"
       THEN conns' = [conns EXCEPT ![c] = Close(got, "r")]
       ELSE /\ lock[n] = NoTask
            /\ conns' = [conns EXCEPT ![c] =
                 Close(Emit(got, "r", <<Wire(rec.r_key, AnchorMsgs(to_send, now[n]))>>),
                       "r")]
    /\ served' = IF n \in DOMAIN served /\ Readable(w, rec.r_key) /\ w.f.t = "ANCHOR_PULL"
                 THEN [served EXCEPT ![n] = Put(@, <<rec.peer_node_id, rec.circle_id>>,
                          [store |-> Get(anchor_store[n], rec.circle_id, <<>>),
                           server_time |-> now[n]])]
                 ELSE served
    /\ UNCHANGED <<loop, relay, call, state, now, lock, anchor_store, anchor_pull_since, started, tui, next_id,
                   synced, pruned, unlocked, applied, seen_tokens, errors, skipped>>

\* _anchor_push_pull after ANCHOR_PUSH: any frame counts as the ack; then
\* send ANCHOR_PULL with the cursor of this circle.
A_PushAck(c) ==
    LET rec == conns[c]
        n == rec.ini
        w == Head(rec.r2i)
        got == Recv(rec, "i", 1)
        since == Get(anchor_pull_since[n], rec.circle_id, 0)
    IN
    /\ rec.ipc = "rd_push_ack"
    /\ rec.r2i # <<>>
    /\ conns' = [conns EXCEPT ![c] =
         IF ~Readable(w, rec.i_key) THEN Raise(got, "i")
         ELSE SetPc(Emit(got, "i", <<Wire(rec.i_key, AnchorPull(rec.circle_id, since))>>),
                    "i", "rd_anchor_msgs")]
    /\ UNCHANGED <<loop, relay, call, state, now, lock, anchor_store, anchor_pull_since, served, started, tui, next_id,
                   synced, pruned, unlocked, applied, seen_tokens, errors, skipped>>

\* _anchor_push_pull, the reply to ANCHOR_PULL: move the cursor to the
\* anchor's time, merge the envelopes with merge_relay_messages under the
\* lock and save if anything was added.
A_Msgs(c) ==
    LET rec == conns[c]
        n == rec.ini
        w == Head(rec.r2i)
        got == Recv(rec, "i", 1)
        s1 == merge_relay_messages(state[n], rec.circle_id, w.f.envelopes)
        s2 == IF s1 # state[n] THEN Saved(n, s1) ELSE s1
    IN
    /\ rec.ipc = "rd_anchor_msgs"
    /\ rec.r2i # <<>>
    /\ IF ~Readable(w, rec.i_key)
       THEN /\ conns' = [conns EXCEPT ![c] = Raise(got, "i")]
            /\ UNCHANGED <<state, anchor_pull_since, pruned>>
       ELSE IF w.f.t # "ANCHOR_MSGS"
       THEN /\ conns' = [conns EXCEPT ![c] = Close(got, "i")]
            /\ UNCHANGED <<state, anchor_pull_since, pruned>>
       ELSE /\ w.f.envelopes # <<>> => lock[n] = NoTask
            /\ anchor_pull_since' = [anchor_pull_since EXCEPT ![n] =
                 IF w.f.server_time > 0 THEN Put(@, rec.circle_id, w.f.server_time)
                 ELSE @]
            /\ state' = [state EXCEPT ![n] = s2]
            /\ pruned' = pruned \cup (MsgIdsOf(s1.messages) \ MsgIdsOf(s2.messages))
            /\ conns' = [conns EXCEPT ![c] = Close(got, "i")]
    /\ UNCHANGED <<loop, relay, call, now, lock, anchor_store, served, started, tui, next_id,
                   synced, unlocked, applied, seen_tokens, errors, skipped>>

\* asyncio.wait_for around a read of the anchor exchange times out: the
\* task returns and closes its end.
A_Timeout(c, side) ==
    /\ Pc(conns[c], side) \in {"rd_push", "rd_pull", "rd_push_ack", "rd_anchor_msgs"}
    /\ Inbound(conns[c], side) = <<>>
    /\ conns' = [conns EXCEPT ![c] = Close(conns[c], side)]
    /\ UNCHANGED <<loop, relay, call, state, now, lock, anchor_store, anchor_pull_since, served, started, tui, next_id,
                   synced, pruned, unlocked, applied, seen_tokens, errors, skipped>>

\* n2 is configured as anchor. n1 posts short and long messages and syncs
\* with n2, one connection at a time, pushing to and pulling from its anchor
\* store; the clock of n2 advances.
InitAnchor == InitJoined({"n2"})

NextAnchor ==
    \/ \E c \in ConnIds : OpenCount = 0 /\ Dial(c, "n1", "n2", "c1")
    \/ \E c \in ConnIds : R_Hello(c)
    \/ \E c \in ConnIds : I_Challenge(c)
    \/ \E c \in ConnIds : R_Auth(c)
    \/ \E c \in ConnIds : R_SyncStart(c)
    \/ \E c \in ConnIds : I_Welcome(c)
    \/ \E c \in ConnIds, side \in {"i", "r"} : S_Have(c, side)
    \/ \E c \in ConnIds, side \in {"i", "r"} : S_Req(c, side)
    \/ \E c \in ConnIds, side \in {"i", "r"} : S_Send(c, side)
    \/ \E c \in ConnIds : A_ServePush(c)
    \/ \E c \in ConnIds : A_ServePull(c)
    \/ \E c \in ConnIds : A_PushAck(c)
    \/ \E c \in ConnIds : A_Msgs(c)
    \/ \E c \in ConnIds, side \in {"i", "r"} : A_Timeout(c, side)
    \/ \E body \in {"hi", "big"} : SendMessage("n1", body)
    \/ Tick("n2")

SpecAnchor == InitAnchor /\ [][NextAnchor]_vars

\* C10 - Anchor retention: in every reachable state, every per-circle anchor
\* store holds at most ANCHOR_MAX_MSGS envelopes, at most ANCHOR_MAX_BYTES of
\* serialised envelopes, and no envelope whose created_ts is more than
\* ANCHOR_MAX_AGE_S behind the anchor's clock.
C10_AnchorRetention ==
    \A n \in Nodes : \A circle_id \in DOMAIN anchor_store[n] :
       LET circle_store == anchor_store[n][circle_id] IN
       /\ Len(circle_store) <= ANCHOR_MAX_MSGS
       /\ SumBytes(circle_store, 1) <= ANCHOR_MAX_BYTES
       /\ \A i \in DOMAIN circle_store :
             now[n] - circle_store[i].created_ts <= ANCHOR_MAX_AGE_S

\* -------------------------------------------------------------------- SpecPull

\* n1's second post, made at time 1.
SecondPost ==
    Signed("s1", ChatMessage(2, "c1", "general", "n1", "anon", 1, PlainText("yo")))

\* Unix time 1: n2 is configured as anchor, n1 has posted twice, n3 has been
\* offline. n1 syncs with n2 and pushes to its anchor store; n3 comes online,
\* dials n2 and pulls. n1's clock may run ahead, and n1 may create a channel
\* or post once more.
InitPull ==
    /\ state = [n \in Nodes |->
         IF n = "n1"
         THEN [with_circle(DefaultState(n, FALSE), "s1", 1)
                 EXCEPT !.messages = <<[FirstPost EXCEPT !.created_ts = 1,
                                           !.mac = make_message_mac("s1",
                                              [FirstPost EXCEPT !.created_ts = 1])],
                                       SecondPost>>]
         ELSE with_circle(DefaultState(n, n = "n2"), "s1", 1)]
    /\ now = [n \in Nodes |-> 1]
    /\ lock = [n \in Nodes |-> NoTask]
    /\ conns = [c \in ConnIds |-> FreshConn]
    /\ anchor_store = [n \in Nodes |-> EmptyDict]
    /\ anchor_pull_since = [n \in Nodes |-> EmptyDict]
    /\ tui = [n \in Nodes |-> [Screen("c1", "general") EXCEPT
                                 !.seen = IF n = "n1" THEN {1, 2} ELSE {}]]
    /\ next_id = 2
    /\ synced = {}
    /\ pruned = {}
    /\ unlocked = {}
    /\ applied = [n \in Nodes |-> EmptyDict]
    /\ seen_tokens = {}
    /\ skipped = {}
    /\ served = [n \in Nodes |-> EmptyDict]
    /\ started = EmptyDict
    /\ loop = LoopOff
    /\ relay = RelayOff
    /\ call = NoCall
    /\ errors = EmptyDict

NextPull ==
    \/ \E c \in ConnIds : OpenCount = 0 /\ Dial(c, "n1", "n2", "c1")
    \/ \E c \in ConnIds : OpenCount = 0 /\ Dial(c, "n3", "n2", "c1")
    \/ \E c \in ConnIds : R_Hello(c)
    \/ \E c \in ConnIds : I_Challenge(c)
    \/ \E c \in ConnIds : R_Auth(c)
    \/ \E c \in ConnIds : R_SyncStart(c)
    \/ \E c \in ConnIds : I_Welcome(c)
    \/ \E c \in ConnIds, side \in {"i", "r"} : S_Have(c, side)
    \/ \E c \in ConnIds, side \in {"i", "r"} : S_Req(c, side)
    \/ \E c \in ConnIds, side \in {"i", "r"} : S_Send(c, side)
    \/ \E c \in ConnIds : A_ServePush(c)
    \/ \E c \in ConnIds : A_ServePull(c)
    \/ \E c \in ConnIds : A_PushAck(c)
    \/ \E c \in ConnIds : A_Msgs(c)
    \/ ChannelCreate("n1", "ops", "public")
    \/ SendMessage("n1", "hi")
    \/ Tick("n1")

SpecPull == InitPull /\ [][NextPull]_vars

\* The step reads the ANCHOR_MSGS that answers the pull of connection c.
PullReply(c) ==
    /\ conns[c].ipc = "rd_anchor_msgs"
    /\ conns'[c] # conns[c]
    /\ conns[c].r2i # <<>>
    /\ Readable(Head(conns[c].r2i), conns[c].i_key)
    /\ Head(conns[c].r2i).f.t = "ANCHOR_MSGS"

\* C11 - Anchor round-trip: when a node reads the ANCHOR_MSGS that answers
\* its ANCHOR_PULL, the message of every envelope in it is in the node's
\* store afterwards (or was stored and dropped at once by the retention of
\* save_state).
C11_AnchorRoundTrip ==
    [][\A c \in ConnIds :
          PullReply(c) =>
             \A k \in DOMAIN Head(conns[c].r2i).f.envelopes :
                LET id == Head(conns[c].r2i).f.envelopes[k].msg_id IN
                \/ HasMsg(state'[conns[c].ini].messages, id)
                \/ id \in pruned' \ pruned]_vars

\* The step in which the anchor answers the ANCHOR_PULL at the head of c.
PullServe(c) ==
    /\ conns[c].rpc = "rd_pull"
    /\ conns[c].i2r # <<>>
    /\ Readable(Head(conns[c].i2r), conns[c].r_key)
    /\ Head(conns[c].i2r).f.t = "ANCHOR_PULL"
    /\ conns'[c] # conns[c]
    /\ conns'[c].r2i # <<>>

\* The pull at the head of c repeats the cursor the anchor last gave this
\* puller, and the anchor's store is what it was at that reply.
Repull(c) ==
    LET n == conns[c].res
        k == <<conns[c].peer_node_id, conns[c].circle_id>>
    IN /\ k \in DOMAIN served[n]
       /\ Head(conns[c].i2r).f.since = served[n][k].server_time
       /\ Get(anchor_store[n], conns[c].circle_id, <<>>) = served[n][k].store

\* The envelopes of the reply the anchor has just written on c.
Reply(c) == conns'[c].r2i[Len(conns'[c].r2i)].f.envelopes

\* No stored envelope of the circle of c is stamped later than `since`.
NoneLater(c) ==
    LET st == Get(anchor_store[conns[c].res], conns[c].circle_id, <<>>)
    IN \A i \in DOMAIN st : st[i].created_ts <= Head(conns[c].i2r).f.since

\* C12 as stated - Pull cursor: a pull whose `since` is the server_time of
\* the same anchor's previous ANCHOR_MSGS returns zero envelopes when nothing
\* has been stored in between.
C12_PullCursor ==
    [][\A c \in ConnIds : PullServe(c) /\ Repull(c) => Reply(c) = <<>>]_vars

\* C12 - Pull cursor, amended: a pull whose `since` is the server_time of the
\* same anchor's previous ANCHOR_MSGS returns zero envelopes when nothing has
\* been stored in between and no stored envelope carries a created_ts later
\* than that server_time (no sender's clock ran ahead of the anchor's).
C12_PullCursorNoSkew ==
    [][\A c \in ConnIds :
          PullServe(c) /\ Repull(c) /\ NoneLater(c) => Reply(c) = <<>>]_vars

\* C12 witness: a puller that holds a cursor from an earlier reply has been
\* answered with no envelopes by an anchor whose store is not empty and is
\* the store of that reply.
C12_Witness ==
    \E c \in ConnIds :
        LET n == conns[c].res
            k == <<conns[c].ini, conns[c].circle_id>>
        IN /\ conns[c].ipc = "rd_anchor_msgs"
           /\ conns[c].r2i # <<>>
           /\ Readable(Head(conns[c].r2i), conns[c].i_key)
           /\ Head(conns[c].r2i).f.t = "ANCHOR_MSGS"
           /\ Head(conns[c].r2i).f.envelopes = <<>>
           /\ Get(anchor_pull_since[conns[c].ini], conns[c].circle_id, 0) >= 1
           /\ k \in DOMAIN served[n]
           /\ served[n][k].store # <<>>
           /\ served[n][k].store = Get(anchor_store[n], conns[c].circle_id, <<>>)
           /\ served[n][k].server_time
                 = Get(anchor_pull_since[conns[c].ini], conns[c].circle_id, 0)

\* C19 - Blind anchor: a node that stores anchor envelopes for a circle does
\* not hold that circle's secret: a non-empty anchor store for circle C on
\* a node implies C is not among the node's circles.
C19_BlindAnchor ==
    \A n \in Nodes : \A circle_id \in DOMAIN anchor_store[n] :
       anchor_store[n][circle_id] # <<>> => circle_id \notin DOMAIN state[n].circles

\* Messages that reach a store between two saves: of the circle c1 and of a
\* circle the node does not hold, created at every time of the model.
ExtraBatches ==
    LET Extra(msg_id, circle_id, ts) ==
            ChatMessage(msg_id, circle_id, "general", "n3", "anon", ts, PlainText("x"))
        eights == {Extra(8, "c1", ts) : ts \in 0..MaxClock}
        nines == {Extra(9, "c1", ts) : ts \in 0..MaxClock} \cup {Extra(9, "cx", 0)}
    IN {<<>>} \cup {<<m>> : m \in eights \cup nines}
       \cup {<<p[1], p[2]>> : p \in eights \X nines}

\* C20 - Message pruning: after save_state, each circle the node holds has at
\* most MAX_MESSAGES_PER_CIRCLE stored messages and no stored message is
\* older than MESSAGE_MAX_AGE_S; nothing is added; and of the unexpired
\* messages of a held circle nothing is removed unless the circle is over
\* the cap, in which case exactly the oldest in (created_ts, msg_id) order
\* are.
C20_Pruning ==
    \A n \in Nodes, now_ts \in 0..MaxClock, extra \in ExtraBatches :
       LET s0 == [state[n] EXCEPT !.messages = @ \o extra]
           s1 == save_state(s0, now_ts)
           Of(s, circle_id) == {m \in Range(s.messages) : m.circle_id = circle_id}
       IN /\ Range(s1.messages) \subseteq Range(s0.messages)
          /\ \A m \in Range(s1.messages) : now_ts - m.created_ts <= MESSAGE_MAX_AGE_S
          /\ \A circle_id \in DOMAIN s1.circles :
                LET unexpired == {m \in Of(s0, circle_id) :
                                    now_ts - m.created_ts <= MESSAGE_MAX_AGE_S}
                    kept == Of(s1, circle_id)
                IN /\ Cardinality(kept) <= MAX_MESSAGES_PER_CIRCLE
                   /\ kept \subseteq unexpired
                   /\ Cardinality(kept) < MAX_MESSAGES_PER_CIRCLE => kept = unexpired
                   /\ \A d \in unexpired \ kept : \A k \in kept :
                         \/ d.created_ts < k.created_ts
                         \/ d.created_ts = k.created_ts /\ d.msg_id < k.msg_id

\* C20 witness: a save at n1 has dropped its first post, the oldest of three
\* messages of c1 in (created_ts, msg_id) order, and kept its second post of
\* the same created_ts.
C20_Witness ==
    /\ FirstPost.msg_id \in pruned
    /\ ~HasMsg(state["n1"].messages, FirstPost.msg_id)
    /\ HasMsg(state["n1"].messages, SecondPost.msg_id)

\* -------------------------------------------------------------------- SpecFail

\* asyncio.wait_for in read_frame / read_enc_frame times out during the
\* handshake or the sync (for phase 2, also between its two reads):
\* TimeoutError reaches the `except Exception` of the task.
ReadTimeout(c, side) ==
    LET rec == conns[c]
        in == Inbound(rec, side)
    IN
    /\ Pc(rec, side) \in {"rd_hello", "rd_auth", "rd_challenge", "rd_welcome",
                          "rd_have", "rd_req", "rd_send"}
    /\ Pc(rec, Other(side)) # "closed"
    /\ \/ in = <<>>
       \/ Pc(rec, side) = "rd_have" /\ Len(in) = 1 /\ Readable(in[1], KeyOf(rec, side))
    /\ conns' = [conns EXCEPT ![c] = Raise(Recv(rec, side, Len(in)), side)]
    /\ UNCHANGED <<loop, relay, call, state, now, lock, anchor_store, anchor_pull_since, served, started,
                   tui, next_id, synced, pruned, unlocked, applied, seen_tokens, errors, skipped>>

\* A post of the member that runs other software on the host ADV.
PeerPost ==
    Signed("s1", ChatMessage(2, "c1", "general", ADV, "eve", 0, PlainText("yo")))

\* The frames of a member of c1 that runs other software on the host ADV and
\* uses no session encryption: at each stage the frame the protocol asks for,
\* a frame of another tag, and a line that is not a frame.
PeerBursts(c) ==
    LET rec == conns[c]
        pc == IF rec.ini = ADV THEN rec.rpc ELSE rec.ipc
    IN
    {<<Wire(<<>>, Error("junk"))>>, <<Wire(<<"not json">>, Error("junk"))>>}
    \cup
    CASE pc = "rd_challenge" -> {<<Wire(<<>>, Challenge(<<"sn", c>>))>>}
      [] pc = "rd_auth" ->
           {<<Wire(<<>>, HelloAuth(make_token("s1", ADV, "c1", rec.server_nonce)))>>}
      [] pc = "rd_welcome" -> {<<Wire(<<>>, Welcome(ADV, FALSE, TRUE))>>}
      [] pc = "rd_have" ->
           {<<Wire(<<>>, PeersFrame("c1", <<>>)), Wire(<<>>, MsgsHave("c1", {2}))>>,
            <<Wire(<<>>, PeersFrame("c1", <<>>)), Wire(<<"not json">>, Error("junk"))>>,
            <<Wire(<<>>, Error("junk")), Wire(<<>>, MsgsHave("c1", {2}))>>}
      [] pc = "rd_req" -> {<<Wire(<<>>, MsgsReq("c1", <<1>>))>>}
      [] pc = "rd_send" -> {<<Wire(<<>>, MsgsSend("c1", <<PeerPost>>))>>}
      [] pc = "rd_push" -> {<<Wire(<<>>, AnchorPush("c1", <<Envelope("s1", PeerPost)>>))>>}
      [] pc = "rd_push_ack" -> {<<Wire(<<>>, AnchorPushAck(0))>>}
      [] pc = "rd_pull" -> {<<Wire(<<>>, AnchorPull("c1", 0))>>}
      [] pc = "rd_anchor_msgs" -> {<<Wire(<<>>, AnchorMsgs(<<>>, 1))>>}
      [] OTHER -> {}

\* n1 has posted once; n2 is configured as anchor. n1 dials n2 and the member
\* on ADV, that member dials n2, one connection at a time; reads time out and
\* ADV closes connections at any point.
InitFail ==
    /\ state = [n \in Nodes |->
         IF n = "n1"
         THEN [with_circle(DefaultState(n, FALSE), "s1", 0)
                 EXCEPT !.messages = <<FirstPost>>]
         ELSE with_circle(DefaultState(n, n = "n2"), "s1", 0)]
    /\ now = [n \in Nodes |-> 0]
    /\ lock = [n \in Nodes |-> NoTask]
    /\ conns = [c \in ConnIds |-> FreshConn]
    /\ anchor_store = [n \in Nodes |-> EmptyDict]
    /\ anchor_pull_since = [n \in Nodes |-> EmptyDict]
    /\ tui = [n \in Nodes |-> [Screen("c1", "general") EXCEPT
                                 !.seen = IF n = "n1" THEN {1} ELSE {}]]
    /\ next_id = 1
    /\ synced = {}
    /\ pruned = {}
    /\ unlocked = {}
    /\ applied = [n \in Nodes |-> EmptyDict]
    /\ seen_tokens = {}
    /\ skipped = {}
    /\ served = EmptyDict
    /\ started = [c \in ConnIds |-> NotStarted]
    /\ loop = LoopOff
    /\ relay = RelayOff
    /\ call = NoCall
    /\ errors = EmptyDict

NextFail ==
    \/ \E c \in ConnIds : OpenCount = 0 /\ Dial(c, "n1", "n2", "c1")
    \/ \E c \in ConnIds : OpenCount = 0 /\ Dial(c, "n1", ADV, "c1")
    \/ \E c \in ConnIds : OpenCount = 0 /\ AdvDial(c, "n2", ADV, "c1", "adv:p")
    \/ \E c \in ConnIds : \E burst \in PeerBursts(c) : AdvWrite(c, burst)
    \/ \E c \in ConnIds : AdvClose(c)
    \/ \E c \in ConnIds : R_Hello(c)
    \/ \E c \in ConnIds : I_Challenge(c)
    \/ \E c \in ConnIds : R_Auth(c)
    \/ \E c \in ConnIds : R_SyncStart(c)
    \/ \E c \in ConnIds : I_Welcome(c)
    \/ \E c \in ConnIds, side \in {"i", "r"} : S_Have(c, side)
    \/ \E c \in ConnIds, side \in {"i", "r"} : S_Req(c, side)
    \/ \E c \in ConnIds, side \in {"i", "r"} : S_Send(c, side)
    \/ \E c \in ConnIds : A_ServePush(c)
    \/ \E c \in ConnIds : A_ServePull(c)
    \/ \E c \in ConnIds : A_PushAck(c)
    \/ \E c \in ConnIds : A_Msgs(c)
    \/ \E c \in ConnIds, side \in {"i", "r"} : A_Timeout(c, side)
    \/ \E c \in ConnIds, side \in {"i", "r"} : ReadTimeout(c, side)
    \/ \E c \in ConnIds, side \in {"i", "r"} : ReadEOF(c, side)

SpecFail == InitFail /\ [][NextFail]_vars

\* ------------------------------------------------------------ claims: SpecFail

\* The program counters of a task that has entered _sync_with_connected_peer.
InSync == {"rd_have", "rd_req", "rd_send", "rd_push", "rd_pull", "rd_push_ack",
           "rd_anchor_msgs"}

\* The tags of the frames _sync_with_connected_peer writes with _write.
SyncTags == {"PEERS", "MSGS_HAVE", "MSGS_REQ", "MSGS_SEND", "ANCHOR_PUSH",
             "ANCHOR_PUSH_ACK", "ANCHOR_PULL", "ANCHOR_MSGS"}

\* The nonce the HELLO of connection c carried: a node sends one, the member
\* on ADV none.
HelloNonce(c) == IF conns[c].ini \in Nodes THEN conns[c].client_nonce ELSE <<>>

\* C13 - Session-encryption negotiation: a responder's WELCOME has enc_ready
\* true exactly when HELLO carried a non-empty client nonce; thereafter each
\* end frames every sync frame under its session key, which is empty
\* (plaintext) when enc_ready was false and is
\* derive_session_key(secret, client_nonce, server_nonce) at both ends when
\* it was true.
C13_Negotiation ==
    \A c \in ConnIds :
       LET rec == conns[c] IN
       /\ rec.res \in Nodes =>
             /\ \A k \in DOMAIN rec.r2i :
                   /\ rec.r2i[k].f.t = "WELCOME" =>
                         (rec.r2i[k].f.enc_ready <=> HelloNonce(c) # <<>>)
                   /\ rec.r2i[k].f.t \in SyncTags => rec.r2i[k].key = rec.r_key
             /\ rec.rpc \in InSync =>
                   rec.r_key = IF HelloNonce(c) # <<>>
                               THEN derive_session_key("s1", HelloNonce(c),
                                                       rec.server_nonce)
                               ELSE <<>>
       /\ rec.ini \in Nodes =>
             /\ \A k \in DOMAIN rec.i2r :
                   rec.i2r[k].f.t \in SyncTags => rec.i2r[k].key = rec.i_key
             /\ rec.ipc \in InSync /\ rec.res = ADV => rec.i_key = <<>>
             /\ rec.ipc \in InSync /\ rec.rpc \in InSync => rec.i_key = rec.r_key

\* C13 witness: n2 holds the post of the member on ADV, which it can only
\* have merged in a session negotiated without encryption (with ADV, or by
\* n1 with ADV and then n1 with n2), and n1 and n2 are in a sync under a
\* shared session key with an encrypted frame in flight.
C13_Witness ==
    /\ HasMsg(state["n2"].messages, PeerPost.msg_id)
    /\ \E c \in ConnIds :
          /\ conns[c].ini = "n1" /\ conns[c].res = "n2"
          /\ conns[c].ipc \in InSync /\ conns[c].rpc \in InSync
          /\ conns[c].i_key # <<>>
          /\ conns[c].i2r # <<>>
          /\ Head(conns[c].i2r).key = conns[c].r_key

\* The State of the node at `side` of c when c was opened.
StartOf(c, side) == IF side = "i" THEN started[c].i ELSE started[c].r

\* The part of a State the claims on failures speak of.
Tables(s) ==
    <<s.messages, s.peers, s.circle_members, s.channels, s.channel_members,
      s.channel_requests>>

\* The step ends the task at `side` of c, where phase 6 may end it without
\* an error: there is no anchor phase after a MSGS_SEND, an ANCHOR_PULL is
\* answered, an ANCHOR_MSGS is read.
EndsWell(c, side, tag) ==
    /\ Inbound(conns[c], side) # <<>>
    /\ Readable(Head(Inbound(conns[c], side)), KeyOf(conns[c], side))
    /\ Head(Inbound(conns[c], side)).f.t = tag

\* The step in which the task of a node at `side` of c fails during the
\* handshake or the sync: EOF, a timeout, a line that is no frame, a frame of
\* an unexpected tag.
FailStep(c, side) ==
    /\ NodeOf(conns[c], side) \in Nodes
    /\ Pc(conns[c], side) \in {"rd_hello", "rd_auth", "rd_challenge", "rd_welcome",
                                "rd_have", "rd_req", "rd_send"}
    /\ Pc(conns'[c], side) = "closed"
    /\ ~(Pc(conns[c], side) = "rd_send" /\ EndsWell(c, side, "MSGS_SEND"))

\* C17 as stated - when a connection fails during the handshake or the sync,
\* it is terminated and the node's messages, peers, circle_members and
\* channel tables are what they were before the connection started.
C17_FailureRestoresState ==
    [][\A c \in ConnIds, side \in {"i", "r"} :
          FailStep(c, side) =>
             Tables(state'[NodeOf(conns[c], side)]) = Tables(StartOf(c, side))]_vars

\* C17, amended - when a connection fails during the handshake or the sync,
\* the failing task terminates it and the failing step changes no node's
\* state; what the connection committed before the failure stays: the
\* responder that sent WELCOME keeps the peer among the circle's members, the
\* initiator that read WELCOME keeps the server among them.
C17_FailureKeepsState ==
    [][\A c \in ConnIds, side \in {"i", "r"} :
          FailStep(c, side) =>
             LET n == NodeOf(conns[c], side) IN
             /\ state' = state
             /\ side = "r" /\ conns[c].welcomed =>
                   conns[c].peer_node_id \in state'[n].circle_members[conns[c].circle_id]
             /\ side = "i" /\ conns[c].ipc \in {"rd_have", "rd_req", "rd_send"} =>
                   conns[c].res \in state'[n].circle_members[conns[c].circle_id]]_vars

\* C17 witness: n2 admitted the peer of a connection, sent WELCOME and then
\* failed (it has written "Internal error" and closed); the peer is among
\* its circle members and was not when the connection was opened.
C17_Witness ==
    \E c \in ConnIds :
       /\ conns[c].res = "n2"
       /\ conns[c].rpc = "closed"
       /\ conns[c].welcomed
       /\ conns[c].r2i # <<>>
       /\ conns[c].r2i[Len(conns[c].r2i)].f = Error("Internal error")
       /\ conns[c].peer_node_id \in state["n2"].circle_members["c1"]
       /\ conns[c].peer_node_id \notin started[c].r.circle_members["c1"]

\* The step in which the task of a node at `side` of c fails during the
\* anchor exchange: a timeout, EOF, a line that is no frame, a frame of an
\* unexpected tag.
AnchorFailStep(c, side) ==
    /\ NodeOf(conns[c], side) \in Nodes
    /\ Pc(conns[c], side) \in {"rd_push", "rd_pull", "rd_push_ack", "rd_anchor_msgs"}
    /\ Pc(conns'[c], side) = "closed"
    /\ ~(Pc(conns[c], side) = "rd_pull" /\ EndsWell(c, side, "ANCHOR_PULL"))
    /\ ~(Pc(conns[c], side) = "rd_anchor_msgs" /\ EndsWell(c, side, "ANCHOR_MSGS"))

\* C18 - A failure in the anchor phase is non-fatal: the failing task closes
\* the connection, the step changes no node's state, and the messages the
\* task merged in the preceding MSGS_SEND exchange (those the peer node held
\* when the connection was opened) are in its store, unless its own pruning
\* dropped them.
C18_AnchorFailureNonFatal ==
    [][\A c \in ConnIds, side \in {"i", "r"} :
          AnchorFailStep(c, side) =>
             LET n == NodeOf(conns[c], side)
                 theirs == StartOf(c, Other(side))
             IN /\ state' = state
                /\ NodeOf(conns[c], Other(side)) \in Nodes =>
                      \A k \in DOMAIN theirs.messages :
                         theirs.messages[k].circle_id = conns[c].circle_id =>
                            \/ HasMsg(state'[n].messages, theirs.messages[k].msg_id)
                            \/ theirs.messages[k].msg_id \in pruned']_vars

\* C18 witness: the anchor n2 has left the anchor exchange with n1 before n1
\* has (n1 still waits for MSGS_SEND or ANCHOR_PUSH_ACK), and holds n1's
\* post, which it did not hold when the connection was opened.
C18_Witness ==
    \E c \in ConnIds :
       /\ conns[c].ini = "n1" /\ conns[c].res = "n2"
       /\ conns[c].rpc = "closed"
       /\ conns[c].ipc \in {"rd_send", "rd_push_ack"}
       /\ conns[c].r2i = <<>> \/ conns[c].r2i[Len(conns[c].r2i)].f.t # "ERROR"
       /\ HasMsg(state["n2"].messages, FirstPost.msg_id)
       /\ ~HasMsg(started[c].r.messages, FirstPost.msg_id)

\* --------------------------------------------------------------------- SpecCtl

\* A __control message of the member on ADV, signed with the circle secret.
CtlBy(msg_id, event) ==
    Signed("s1", ChatMessage(msg_id, "c1", CONTROL_CHANNEL_ID, ADV, "eve", 0,
                             [event EXCEPT !.circle_id = "c1"]))

\* The control messages that member offers: a circle name, three anchor
\* announcements for n3 (announced_at 2 as anchor, 1 as no anchor, 2 as a
\* mobile node) and a channel event whose op the program does not know.
CtlMsgs ==
    { CtlBy(4, [NoText EXCEPT !.t = "CIRCLE_NAME_EVT", !.name = "den"]),
      CtlBy(5, [NoText EXCEPT !.t = "ANCHOR_ANNOUNCE", !.node_id = "n3",
                              !.announced_at = 2, !.can_anchor = TRUE]),
      CtlBy(6, [NoText EXCEPT !.t = "ANCHOR_ANNOUNCE", !.node_id = "n3",
                              !.announced_at = 1]),
      CtlBy(7, [NoText EXCEPT !.t = "ANCHOR_ANNOUNCE", !.node_id = "n3",
                              !.announced_at = 2, !.is_mobile = TRUE]),
      CtlBy(8, [NoText EXCEPT !.t = "CHANNEL_EVT", !.op = "archive",
                              !.channel_id = "general", !.actor_node_id = ADV]) }

\* The frames of that member when it answers n1's dial: in MSGS_SEND, one of
\* its control messages.
CtlBursts(c) ==
    LET pc == conns[c].ipc IN
    CASE pc = "rd_challenge" -> {<<Wire(<<>>, Challenge(<<"sn", c>>))>>}
      [] pc = "rd_welcome" -> {<<Wire(<<>>, Welcome(ADV, FALSE, FALSE))>>}
      [] pc = "rd_have" ->
           {<<Wire(<<>>, PeersFrame("c1", <<>>)), Wire(<<>>, MsgsHave("c1", {}))>>}
      [] pc = "rd_req" -> {<<Wire(<<>>, MsgsReq("c1", <<>>))>>}
      [] pc = "rd_send" ->
           {<<Wire(<<>>, MsgsSend("c1", <<m>>))>> : m \in CtlMsgs}
      [] OTHER -> {}

\* The members n1 and n2 of c1 have no messages; n1 syncs with the member on
\* ADV and is dialled by n2, one connection at a time; the user of n1 may
\* name the circle; n1's clock advances.
InitCtl ==
    /\ state = [n \in Nodes |-> with_circle(DefaultState(n, FALSE), "s1", 0)]
    /\ now = [n \in Nodes |-> 0]
    /\ lock = [n \in Nodes |-> NoTask]
    /\ conns = [c \in ConnIds |-> FreshConn]
    /\ anchor_store = [n \in Nodes |-> EmptyDict]
    /\ anchor_pull_since = [n \in Nodes |-> EmptyDict]
    /\ tui = [n \in Nodes |-> Screen("c1", "general")]
    /\ next_id = 0
    /\ synced = {}
    /\ pruned = {}
    /\ unlocked = {}
    /\ applied = [n \in Nodes |-> EmptyDict]
    /\ seen_tokens = {}
    /\ skipped = {}
    /\ served = EmptyDict
    /\ started = EmptyDict
    /\ loop = LoopOff
    /\ relay = RelayOff
    /\ call = NoCall
    /\ errors = EmptyDict

NextCtl ==
    \/ \E c \in ConnIds : OpenCount = 0 /\ Dial(c, "n1", ADV, "c1")
    \/ \E c \in ConnIds : OpenCount = 0 /\ Dial(c, "n2", "n1", "c1")
    \/ \E c \in ConnIds : \E burst \in CtlBursts(c) : AdvWrite(c, burst)
    \/ \E c \in ConnIds : R_Hello(c)
    \/ \E c \in ConnIds : I_Challenge(c)
    \/ \E c \in ConnIds : R_Auth(c)
    \/ \E c \in ConnIds : R_SyncStart(c)
    \/ \E c \in ConnIds : I_Welcome(c)
    \/ \E c \in ConnIds, side \in {"i", "r"} : S_Have(c, side)
    \/ \E c \in ConnIds, side \in {"i", "r"} : S_Req(c, side)
    \/ \E c \in ConnIds, side \in {"i", "r"} : S_Send(c, side)
    \/ next_id = 0 /\ CircleName("n1", "home")
    \/ Tick("n1")

SpecCtl == InitCtl /\ [][NextCtl]_vars

\* ------------------------------------------------------------- claims: SpecCtl

\* The step in which the task at `side` of c reads a MSGS_SEND and merges it.
MergeStep(c, side) ==
    /\ NodeOf(conns[c], side) \in Nodes
    /\ Pc(conns[c], side) = "rd_send"
    /\ Inbound(conns[c], side) # <<>>
    /\ Readable(Head(Inbound(conns[c], side)), KeyOf(conns[c], side))
    /\ Head(Inbound(conns[c], side)).f.t = "MSGS_SEND"
    /\ Pc(conns'[c], side) # "rd_send"

\* The control events that step applies: those of the messages of the frame
\* that pass the checks of the merge and whose msg_id is not stored.
NewEvents(c, side) ==
    LET s == state[NodeOf(conns[c], side)]
        mds == Head(Inbound(conns[c], side)).f.messages
    IN {admitted_message(s.circles[conns[c].circle_id].secret_hex, mds[k]).text :
          k \in {j \in DOMAIN mds :
           /\ mds[j].circle_id = conns[c].circle_id
           /\ mds[j].channel_id = CONTROL_CHANNEL_ID
           /\ admits(s.circles[conns[c].circle_id].secret_hex, mds[j])
           /\ ~HasMsg(s.messages, mds[j].msg_id)}}

\* C14 - Applying a CIRCLE_NAME_EVT sets the circle's name to the gossiped
\* label only if the local circle has no name yet; a circle that has a name
\* keeps it.
C14_KeepLocalName ==
    [][\A c \in ConnIds, side \in {"i", "r"} :
          MergeStep(c, side) =>
             \A e \in NewEvents(c, side) :
                LET n == NodeOf(conns[c], side)
                    circle_id == conns[c].circle_id
                IN parse_circle_name_event(e) =>
                      state'[n].circles[circle_id].name
                         = IF state[n].circles[circle_id].name = ""
                           THEN Trunc40(e.name)
                           ELSE state[n].circles[circle_id].name]_vars

\* The ANCHOR_ANNOUNCE events among them, as the dispatch of the merge
\* finds them.
Announces(c, side) ==
    {e \in NewEvents(c, side) :
        /\ ~parse_channel_event(e)
        /\ ~parse_circle_name_event(e)
        /\ parse_anchor_announce_event(e)}

\* The capabilities and announced_at of an anchor record.
Announced(rec) ==
    <<rec.can_anchor, rec.public_reachable, rec.is_mobile, rec.announced_at>>

\* C15 - Applying an ANCHOR_ANNOUNCE for node N in circle C replaces the
\* stored capabilities and announced_at only when the event's announced_at
\* is strictly greater than the stored one, so the stored announced_at never
\* decreases; it creates the record when there is none; and in every case
\* the record's last_seen_ts is the current time afterwards.
C15_AnnounceNewest ==
    [][\A c \in ConnIds, side \in {"i", "r"} :
          MergeStep(c, side) =>
             \A e \in Announces(c, side) :
                LET n == NodeOf(conns[c], side)
                    circle_id == conns[c].circle_id
                    before == Get(state[n].anchor_records, circle_id, EmptyDict)
                    after == Get(state'[n].anchor_records, circle_id, EmptyDict)
                    alone == \A e2 \in Announces(c, side) : e2.node_id = e.node_id => e2 = e
                IN /\ e.node_id \in DOMAIN after
                   /\ after[e.node_id].last_seen_ts = now[n]
                   /\ e.node_id \in DOMAIN before =>
                         /\ after[e.node_id].announced_at >= before[e.node_id].announced_at
                         /\ Announced(after[e.node_id]) # Announced(before[e.node_id]) =>
                               after[e.node_id].announced_at
                                  > before[e.node_id].announced_at
                   /\ alone =>
                         Announced(after[e.node_id])
                            = IF /\ e.node_id \in DOMAIN before
                                 /\ e.announced_at <= before[e.node_id].announced_at
                              THEN Announced(before[e.node_id])
                              ELSE <<e.can_anchor, e.public_reachable, e.is_mobile,
                                     e.announced_at>>]_vars

\* C15 witness: n1 took n3's announcement of time 2 as anchor, and has since,
\* at time 1, merged the announcement of time 2 as mobile node without
\* replacing the record.
C15_Witness ==
    /\ "c1" \in DOMAIN state["n1"].anchor_records
    /\ "n3" \in DOMAIN state["n1"].anchor_records["c1"]
    /\ Announced(state["n1"].anchor_records["c1"]["n3"]) = <<TRUE, FALSE, FALSE, 2>>
    /\ state["n1"].anchor_records["c1"]["n3"].last_seen_ts = 1
    /\ HasMsg(state["n1"].messages, 7)

\* Whether the text is a channel event with an op the program does not know.
UnknownOp(text) == text.t = "CHANNEL_EVT" /\ ~parse_channel_event(text)

\* C16 - A __control message whose CHANNEL_EVT op is unknown is dropped: the
\* merge that receives it changes no channel, membership, request or
\* display-name state, and no node offers it in MSGS_HAVE or sends it in
\* MSGS_SEND afterwards.
C16_UnknownOpDropped ==
    [][/\ \A c \in ConnIds, side \in {"i", "r"} :
             MergeStep(c, side) /\ (\A e \in NewEvents(c, side) : UnknownOp(e)) =>
                LET n == NodeOf(conns[c], side) IN
                /\ state'[n].channels = state[n].channels
                /\ state'[n].channel_members = state[n].channel_members
                /\ state'[n].channel_requests = state[n].channel_requests
                /\ state'[n].node_display_names = state[n].node_display_names
       /\ \A c \in ConnIds :
             \A w \in (IF conns'[c].ini \in Nodes THEN Range(conns'[c].i2r) ELSE {})
                      \cup (IF conns'[c].res \in Nodes THEN Range(conns'[c].r2i) ELSE {}) :
                /\ w.f.t = "MSGS_HAVE" =>
                      \A id \in w.f.msg_ids : \A m \in CtlMsgs :
                         m.msg_id = id => ~UnknownOp(m.text)
                /\ w.f.t = "MSGS_SEND" =>
                      \A k \in DOMAIN w.f.messages : ~UnknownOp(w.f.messages[k].text)]_vars

\* ------------------------------------------------------------------ SpecReplay

\* n1 has posted once, at time 0. n1 and n2 sync again and again, in either
\* direction, one connection at a time; n1 may post once more; the clock of
\* n2 advances.
InitReplay ==
    /\ state = [n \in Nodes |->
         IF n = "n1"
         THEN [with_circle(DefaultState(n, FALSE), "s1", 0)
                 EXCEPT !.messages = <<FirstPost>>]
         ELSE with_circle(DefaultState(n, FALSE), "s1", 0)]
    /\ now = [n \in Nodes |-> 0]
    /\ lock = [n \in Nodes |-> NoTask]
    /\ conns = [c \in ConnIds |-> FreshConn]
    /\ anchor_store = [n \in Nodes |-> EmptyDict]
    /\ anchor_pull_since = [n \in Nodes |-> EmptyDict]
    /\ tui = [n \in Nodes |-> [Screen("c1", "general") EXCEPT
                                 !.seen = IF n = "n1" THEN {1} ELSE {}]]
    /\ next_id = 1
    /\ synced = {}
    /\ pruned = {}
    /\ unlocked = {}
    /\ applied = [n \in Nodes |-> EmptyDict]
    /\ seen_tokens = {}
    /\ skipped = {}
    /\ served = EmptyDict
    /\ started = [c \in ConnIds |-> NotStarted]
    /\ loop = LoopOff
    /\ relay = RelayOff
    /\ call = NoCall
    /\ errors = EmptyDict

NextReplay ==
    \/ \E c \in ConnIds : OpenCount = 0 /\ Dial(c, "n1", "n2", "c1")
    \/ \E c \in ConnIds : OpenCount = 0 /\ Dial(c, "n2", "n1", "c1")
    \/ \E c \in ConnIds : R_Hello(c)
    \/ \E c \in ConnIds : I_Challenge(c)
    \/ \E c \in ConnIds : R_Auth(c)
    \/ \E c \in ConnIds : R_SyncStart(c)
    \/ \E c \in ConnIds : I_Welcome(c)
    \/ \E c \in ConnIds, side \in {"i", "r"} : S_Have(c, side)
    \/ \E c \in ConnIds, side \in {"i", "r"} : S_Req(c, side)
    \/ \E c \in ConnIds, side \in {"i", "r"} : S_Send(c, side)
    \/ next_id = 1 /\ SendMessage("n1", "hi")
    \/ Tick("n2")

SpecReplay == InitReplay /\ [][NextReplay]_vars

\* ---------------------------------------------------------- claims: SpecReplay

\* The message ids both ends of connection c held for its circle when it was
\* opened.
HeldAtDial(c, side) ==
    message_ids_for_circle(IF side = "i" THEN started[c].i ELSE started[c].r,
                           conns[c].circle_id)

\* Connection c is a replay: it is open, both ends held the same messages of
\* the circle when it was opened, and none has been posted since.
ReplayOf(c) ==
    /\ Open(c)
    /\ started[c].i # <<>> /\ started[c].r # <<>>
    /\ HeldAtDial(c, "i") = HeldAtDial(c, "r")
    /\ conns[c].gen = next_id'

\* The MSGS_REQ frames in flight on connection c after the step.
ReqsAfter(c) ==
    {w \in Range(conns'[c].i2r) \cup Range(conns'[c].r2i) : w.f.t = "MSGS_REQ"}

\* C21 (as stated) - Replay idempotence: once two nodes hold the same set of
\* messages for a circle, no step of a further sync between them changes the
\* message store of either node, and every MSGS_REQ of that sync is empty.
C21_ReplayIdempotent ==
    [][\A c \in ConnIds : ReplayOf(c) =>
          /\ \A n \in {conns[c].ini, conns[c].res} :
                state'[n].messages = state[n].messages
          /\ \A w \in ReqsAfter(c) : w.f.msg_ids = <<>>]_vars

\* C21 (amended) - Replay idempotence up to retention: once two nodes hold
\* the same set of messages for a circle, a further sync between them adds no
\* message to either store; a store changes only by what prune_messages
\* drops at a save_state; and while both nodes still hold that set, every
\* MSGS_REQ of the sync is empty.
C21_ReplayUnlessPruned ==
    [][\A c \in ConnIds : ReplayOf(c) =>
          /\ \A n \in {conns[c].ini, conns[c].res} :
                \/ state'[n].messages = state[n].messages
                \/ state'[n].messages = prune_messages(state[n], now[n]).messages
          /\ (\A side \in {"i", "r"} :
                 message_ids_for_circle(state'[NodeOf(conns[c], side)], conns[c].circle_id)
                    = HeldAtDial(c, side))
             => \A w \in ReqsAfter(c) : w.f.msg_ids = <<>>]_vars

\* C21 witness: on a connection opened while both nodes held the same
\* non-empty set, the initiator has asked for nothing, got an empty MSGS_SEND
\* and merged it, and its own empty MSGS_SEND is on the way to the responder.
C21_Witness ==
    \E c \in ConnIds :
       /\ started[c].i # <<>> /\ started[c].r # <<>>
       /\ HeldAtDial(c, "i") = HeldAtDial(c, "r")
       /\ HeldAtDial(c, "i") # {}
       /\ "i" \in conns[c].done
       /\ conns[c].rpc = "rd_send"
       /\ conns[c].i2r # <<>>
       /\ Head(conns[c].i2r).f = MsgsSend("c1", <<>>)
       /\ \A n \in {"n1", "n2"} :
             message_ids_for_circle(state[n], "c1") = HeldAtDial(c, "i")

\* ------------------------------------------------------------------- SpecPeers

\* The PEERS lists the member n2, running other software on the host ADV,
\* sends: its own record under another address with last_seen 1 or 2, two
\* records of n3 with the same last_seen, and entries without addr or node_id.
PeerLists ==
    { <<Peer("n2", "x:p", 1), Peer("n3", "x:p", 1), Peer("n3", "y:p", 1),
        Peer("n3", "", 2), Peer("", "z:p", 2)>>,
      <<Peer("n2", "x:p", 2)>> }

\* n1's post in the circle c2.
OtherPost ==
    Signed("s2", ChatMessage(3, "c2", "general", "n1", "anon", 0, PlainText("hi")))

\* The msg_ids of the member's MSGS_REQ: none, or n1's post in c2, n1's post
\* in c1 and an id nobody holds.
ReqLists == {<<>>, <<3, 1, 9>>}

\* The frames of that member when it answers n1's dial.
PeerListBursts(c) ==
    LET pc == conns[c].ipc IN
    CASE pc = "rd_challenge" -> {<<Wire(<<>>, Challenge(<<"sn", c>>))>>}
      [] pc = "rd_welcome" -> {<<Wire(<<>>, Welcome("n2", FALSE, FALSE))>>}
      [] pc = "rd_have" ->
           {<<Wire(<<>>, PeersFrame("c1", peers)), Wire(<<>>, MsgsHave("c1", {}))>> :
               peers \in PeerLists}
      [] pc = "rd_req" -> {<<Wire(<<>>, MsgsReq("c1", msg_ids))>> : msg_ids \in ReqLists}
      [] pc = "rd_send" -> {<<Wire(<<>>, MsgsSend("c1", <<>>))>>}
      [] OTHER -> {}

\* n1 is a member of the circles c1 and c2 and has posted once in each.
InitPeers ==
    /\ state = [n \in Nodes |->
         IF n = "n1"
         THEN [with_circle(with_circle(DefaultState(n, FALSE), "s1", 0), "s2", 0)
                 EXCEPT !.messages = <<FirstPost, OtherPost>>]
         ELSE with_circle(DefaultState(n, FALSE), "s1", 0)]
    /\ now = [n \in Nodes |-> 0]
    /\ lock = [n \in Nodes |-> NoTask]
    /\ conns = [c \in ConnIds |-> FreshConn]
    /\ anchor_store = [n \in Nodes |-> EmptyDict]
    /\ anchor_pull_since = [n \in Nodes |-> EmptyDict]
    /\ tui = [n \in Nodes |-> [Screen("c1", "general") EXCEPT
                                 !.seen = IF n = "n1" THEN {1} ELSE {}]]
    /\ next_id = 3
    /\ synced = {}
    /\ pruned = {}
    /\ unlocked = {}
    /\ applied = [n \in Nodes |-> EmptyDict]
    /\ seen_tokens = {}
    /\ skipped = {}
    /\ served = EmptyDict
    /\ started = EmptyDict
    /\ loop = LoopOff
    /\ relay = RelayOff
    /\ call = NoCall
    /\ errors = EmptyDict

\* n1 syncs with that member again and again, one connection at a time, while
\* its clock advances: it records the member at the address it dialled, with
\* its own time, merges the member's PEERS and serves the member's MSGS_REQ.
NextPeers ==
    \/ \E c \in ConnIds : OpenCount = 0 /\ Dial(c, "n1", ADV, "c1")
    \/ \E c \in ConnIds : \E burst \in PeerListBursts(c) : AdvWrite(c, burst)
    \/ \E c \in ConnIds : I_Challenge(c)
    \/ \E c \in ConnIds : I_Welcome(c)
    \/ \E c \in ConnIds : S_Have(c, "i")
    \/ \E c \in ConnIds : S_Req(c, "i")
    \/ \E c \in ConnIds : S_Send(c, "i")
    \/ Tick("n1")

SpecPeers == InitPeers /\ [][NextPeers]_vars

\* ----------------------------------------------------------- claims: SpecPeers

\* The step in which the task at `side` of c reads PEERS and MSGS_HAVE and
\* merges the peers.
HaveStep(c, side) ==
    /\ NodeOf(conns[c], side) \in Nodes
    /\ Pc(conns[c], side) = "rd_have"
    /\ Len(Inbound(conns[c], side)) >= 2
    /\ Readable(Inbound(conns[c], side)[1], KeyOf(conns[c], side))
    /\ Readable(Inbound(conns[c], side)[2], KeyOf(conns[c], side))
    /\ Inbound(conns[c], side)[1].f.t = "PEERS"
    /\ Inbound(conns[c], side)[2].f.t = "MSGS_HAVE"
    /\ Pc(conns'[c], side) # "rd_have"

\* The positions of the PEERS list that carry a triple (node_id, addr and
\* last_seen) for the node p.
TriplesFor(peer_dicts, p) ==
    {k \in DOMAIN peer_dicts : peer_dicts[k].node_id = p /\ peer_dicts[k].addr # ""}

\* C22 - _merge_peers overwrites an existing peer record with an incoming
\* {node_id, addr, last_seen} triple if and only if the incoming last_seen is
\* strictly greater than the stored one: a record for which the list has no
\* triple is unchanged; for one triple the record afterwards is that triple
\* when its last_seen is greater and the stored record otherwise (also on
\* equal last_seen with another addr); for several, the record changes only
\* to a triple whose last_seen is greater than the stored one.
C22_MergePeersNewer ==
    [][\A c \in ConnIds, side \in {"i", "r"} :
          HaveStep(c, side) =>
             LET n == NodeOf(conns[c], side)
                 peer_dicts == Inbound(conns[c], side)[1].f.peers
             IN \A p \in DOMAIN state[n].peers :
                   LET old == state[n].peers[p]
                       new == state'[n].peers[p]
                       ks == TriplesFor(peer_dicts, p)
                   IN /\ p \in DOMAIN state'[n].peers
                      /\ ks = {} => new = old
                      /\ \A k \in ks :
                            (ks = {k}) =>
                               new = IF peer_dicts[k].last_seen > old.last_seen
                                     THEN Peer(p, peer_dicts[k].addr,
                                               peer_dicts[k].last_seen)
                                     ELSE old
                      /\ new # old =>
                            \E k \in ks :
                               /\ peer_dicts[k].last_seen > old.last_seen
                               /\ new = Peer(p, peer_dicts[k].addr,
                                             peer_dicts[k].last_seen)
                      /\ (\E k \in ks : peer_dicts[k].last_seen > old.last_seen)
                            => new # old]_vars

\* C22 witness: n1 recorded n2 at time 1 at the address it dialled and has
\* then merged a PEERS list (each of them has a triple for n2 at another
\* address with last_seen 1 or 2): the tie left the record as it was; and it
\* learnt n3 from the first of two triples with equal last_seen.
C22_Witness ==
    \E c \in ConnIds :
       /\ conns[c].ipc = "rd_req"
       /\ "n2" \in DOMAIN state["n1"].peers
       /\ state["n1"].peers["n2"] = Peer("n2", "adv:p", 1)
       /\ "n3" \in DOMAIN state["n1"].peers
       /\ state["n1"].peers["n3"] = Peer("n3", "x:p", 1)

\* The step in which the task at `side` of c reads a MSGS_REQ and answers it.
ReqStep(c, side) ==
    /\ NodeOf(conns[c], side) \in Nodes
    /\ Pc(conns[c], side) = "rd_req"
    /\ Inbound(conns[c], side) # <<>>
    /\ Readable(Head(Inbound(conns[c], side)), KeyOf(conns[c], side))
    /\ Head(Inbound(conns[c], side)).f.t = "MSGS_REQ"
    /\ Pc(conns'[c], side) # "rd_req"

\* What the task at `side` of c has written and the other end has not read.
Outbound(rec, side) == IF side = "i" THEN rec.i2r ELSE rec.r2i

\* C23 - Every message in a MSGS_SEND frame was named in the MSGS_REQ
\* received on the same connection and is in the sender's store (in the
\* circle of the connection) when the frame is built: the step that answers a
\* MSGS_REQ writes one MSGS_SEND, and each message of it has a msg_id of the
\* request and is a stored message of the sender.
C23_SendBoundedByReq ==
    [][\A c \in ConnIds, side \in {"i", "r"} :
          ReqStep(c, side) =>
             LET n == NodeOf(conns[c], side)
                 req == Head(Inbound(conns[c], side)).f
                 out == Outbound(conns'[c], side)
             IN /\ out # <<>>
                /\ out[Len(out)].f.t = "MSGS_SEND"
                /\ \A k \in DOMAIN out[Len(out)].f.messages :
                      LET m == out[Len(out)].f.messages[k] IN
                      /\ m.msg_id \in Range(req.msg_ids)
                      /\ m \in Range(state[n].messages)
                      /\ m.circle_id = conns[c].circle_id]_vars

\* C23 witness: n1, which holds a post in c1 and one in c2, has answered the
\* member's MSGS_REQ (every non-empty one names both posts and an id nobody
\* holds) with a MSGS_SEND that carries the post in c1 alone.
C23_Witness ==
    \E c \in ConnIds :
       /\ conns[c].ipc = "rd_send"
       /\ conns[c].i2r = <<Wire(<<>>, MsgsSend("c1", <<FirstPost>>))>>
       /\ HasMsg(state["n1"].messages, 3)

\* ---------------------------------------------------------------------------
\* SpecCrypto: encrypt_message_fields and decrypt_message_fields as pure
\* functions. A circle member seals a message; the ciphertext is then opened
\* with a secret and the five associated-data fields of the caller's choice.
\* ---------------------------------------------------------------------------

CryptoSecrets == {"s1", "s2"}
CryptoMsgIds == {"a", "a|b"}
CryptoCircleIds == {"c", "b|c"}
CryptoChannelIds == {"general", "dev"}
CryptoAuthors == {"n1", "n2"}
CryptoTimes == {1, 2}

CryptoMsgs ==
    {ChatMessage(m, c, "general", "n1", "anon", ts, PlainText("hi")) :
        m \in CryptoMsgIds, c \in CryptoCircleIds, ts \in CryptoTimes}

InitCrypto == InitJoined({})

Encrypt(secret_hex, msg) ==
    /\ call' = [fn |-> "encrypt_message_fields", sealed |-> secret_hex, msg |-> msg,
                enc |-> encrypt_message_fields(secret_hex, msg),
                secret_hex |-> secret_hex, ad |-> <<>>,
                result |-> [ok |-> FALSE, display_name |-> "", text |-> <<>>]]
    /\ UNCHANGED <<state, now, lock, conns, anchor_store, anchor_pull_since, tui,
                   next_id, synced, pruned, unlocked, applied, seen_tokens, errors, skipped,
                   served, started, loop, relay>>

Decrypt(secret_hex, msg_id, circle_id, channel_id, author_node_id, created_ts) ==
    /\ call.fn \in {"encrypt_message_fields", "decrypt_message_fields"}
    /\ call' = [call EXCEPT
                  !.fn = "decrypt_message_fields",
                  !.secret_hex = secret_hex,
                  !.ad = <<msg_id, circle_id, channel_id, author_node_id, created_ts>>,
                  !.result = decrypt_message_fields(secret_hex, call.enc, msg_id,
                                 circle_id, channel_id, author_node_id, created_ts)]
    /\ UNCHANGED <<state, now, lock, conns, anchor_store, anchor_pull_since, tui,
                   next_id, synced, pruned, unlocked, applied, seen_tokens, errors, skipped,
                   served, started, loop, relay>>

NextCrypto ==
    \/ \E secret_hex \in CryptoSecrets, msg \in CryptoMsgs : Encrypt(secret_hex, msg)
    \/ \E secret_hex \in CryptoSecrets, msg_id \in CryptoMsgIds,
          circle_id \in CryptoCircleIds, channel_id \in CryptoChannelIds,
          author_node_id \in CryptoAuthors, created_ts \in CryptoTimes :
          Decrypt(secret_hex, msg_id, circle_id, channel_id, author_node_id, created_ts)

SpecCrypto == InitCrypto /\ [][NextCrypto]_vars

\* The associated-data fields of a message, as a tuple.
OwnFields(msg) ==
    <<msg.msg_id, msg.circle_id, msg.channel_id, msg.author_node_id, msg.created_ts>>

\* C27: opening a sealed message with the sealing secret and the message's own
\* five fields returns its display_name and text; with another secret or with
\* any field different it fails.
C27_RoundTrip ==
    call.fn = "decrypt_message_fields" =>
        IF call.secret_hex = call.sealed /\ call.ad = OwnFields(call.msg)
        THEN /\ call.result.ok
             /\ call.result.display_name = call.msg.display_name
             /\ call.result.text = call.msg.text
        ELSE ~call.result.ok

\* C27, the round trip alone: the own secret and fields return the two fields.
C27_OwnFieldsOpen ==
    (/\ call.fn = "decrypt_message_fields"
     /\ call.secret_hex = call.sealed
     /\ call.ad = OwnFields(call.msg))
        => /\ call.result.ok
           /\ call.result.display_name = call.msg.display_name
           /\ call.result.text = call.msg.text

\* A message sealed under fields ("a|b", "c") has been opened under ("a", "b|c").
C27_Reparsed ==
    /\ call.fn = "decrypt_message_fields"
    /\ call.msg.msg_id = "a|b" /\ call.msg.circle_id = "c"
    /\ call.ad[1] = "a" /\ call.ad[2] = "b|c"
    /\ call.result.ok

\* ------------------------------------------------------------------- SpecJoin

\* What a member running other software offers n1, which owns the invite-only
\* channel #plan: joins of n3 to #plan and to #general, n3's request for
\* #plan and an approval of n2 for #plan.
JoinMsgs ==
    { ControlBy(5, "n3", [NoText EXCEPT !.op = "join", !.channel_id = "plan",
                             !.node_id = "n3", !.actor_node_id = "n3"]),
      ControlBy(6, "n3", [NoText EXCEPT !.op = "join", !.channel_id = "general",
                             !.node_id = "n3", !.actor_node_id = "n3"]),
      ControlBy(7, "n3", [NoText EXCEPT !.op = "request", !.channel_id = "plan",
                             !.node_id = "n3", !.actor_node_id = "n3"]),
      ControlBy(8, "n1", [NoText EXCEPT !.op = "approve", !.channel_id = "plan",
                             !.target_node_id = "n2", !.actor_node_id = "n1"]) }

\* The frames of that member when it answers n1's dial.
JoinBursts(c) ==
    LET pc == conns[c].ipc IN
    CASE pc = "rd_challenge" -> {<<Wire(<<>>, Challenge(<<"sn", c>>))>>}
      [] pc = "rd_welcome" -> {<<Wire(<<>>, Welcome("n2", FALSE, FALSE))>>}
      [] pc = "rd_have" ->
           {<<Wire(<<>>, PeersFrame("c1", <<>>)), Wire(<<>>, MsgsHave("c1", {}))>>}
      [] pc = "rd_req" -> {<<Wire(<<>>, MsgsReq("c1", <<>>))>>}
      [] pc = "rd_send" -> {<<Wire(<<>>, MsgsSend("c1", <<m>>))>> : m \in JoinMsgs}
      [] OTHER -> {}

\* n1 has created the invite-only channel #plan at time 0.
InitJoin == InitMerge

NextJoin ==
    \/ \E c \in ConnIds : OpenCount = 0 /\ Dial(c, "n1", ADV, "c1")
    \/ \E c \in ConnIds : \E burst \in JoinBursts(c) : AdvWrite(c, burst)
    \/ \E c \in ConnIds : I_Challenge(c)
    \/ \E c \in ConnIds : I_Welcome(c)
    \/ \E c \in ConnIds : S_Have(c, "i")
    \/ \E c \in ConnIds : S_Req(c, "i")
    \/ \E c \in ConnIds : S_Send(c, "i")
    \/ Tick("n1")

SpecJoin == InitJoin /\ [][NextJoin]_vars

\* The members a node records for a channel.
MembersOf(s, circle_id, channel_id) ==
    Get(Get(s.channel_members, circle_id, EmptyDict), channel_id, {})

\* C29 - A join event adds its node to the member set of a channel whose
\* access_mode is public or key; applied to an invite channel it leaves the
\* member set as it was.
C29_JoinByAccessMode ==
    [][\A c \in ConnIds, side \in {"i", "r"} :
          MergeStep(c, side) =>
             \A e \in NewEvents(c, side) :
                LET n == NodeOf(conns[c], side)
                    circle_id == conns[c].circle_id
                    channel_id == Lower(e.channel_id)
                IN (/\ parse_channel_event(e)
                    /\ e.op = "join"
                    /\ e.node_id # ""
                    /\ channel_id \in DOMAIN state[n].channels[circle_id])
                      => MembersOf(state'[n], circle_id, channel_id)
                           = IF state[n].channels[circle_id][channel_id].access_mode
                                   \in {"public", "key"}
                             THEN MembersOf(state[n], circle_id, channel_id)
                                      \cup {e.node_id}
                             ELSE MembersOf(state[n], circle_id, channel_id)]_vars

\* n1 records n3 as a member of its invite channel #plan without having
\* applied an approval of n3.
C29_JoinedInvite ==
    /\ state["n1"].channels["c1"]["plan"].access_mode = "invite"
    /\ "n3" \in MembersOf(state["n1"], "c1", "plan")

\* ---------------------------------------------------- claims: phase order

\* The frames the task at `side` of c writes in this step: what is appended to
\* the queue a node reads, or what replaces the queue ADV reads.
NewFrames(c, side) ==
    LET out == Outbound(conns[c], side)
        out2 == Outbound(conns'[c], side)
    IN IF NodeOf(conns[c], side) \notin Nodes THEN <<>>
       ELSE IF NodeOf(conns[c], Other(side)) = ADV
       THEN IF out2 # out THEN out2 ELSE <<>>
       ELSE IF Len(out2) > Len(out) THEN SubSeq(out2, Len(out) + 1, Len(out2))
       ELSE <<>>

\* The tags of the frames of those.
NewTags(c, side) == [k \in DOMAIN NewFrames(c, side) |-> NewFrames(c, side)[k].f.t]

AnchorTags == {"ANCHOR_PUSH", "ANCHOR_PUSH_ACK", "ANCHOR_PULL", "ANCHOR_MSGS"}

\* The positions of a task inside _anchor_push_pull or _anchor_serve.
AnchorPcs == {"rd_push", "rd_push_ack", "rd_pull", "rd_anchor_msgs"}

\* C28 - The phases of a connection are sequential on each side: PEERS and
\* MSGS_HAVE are written together, in this order, by the step that ends the
\* handshake; MSGS_REQ only by the step that has read the peer's PEERS and
\* MSGS_HAVE; MSGS_SEND only by the step that has read the peer's MSGS_REQ;
\* anchor frames are written, and the anchor exchange is entered, only once
\* the peer's MSGS_SEND has been read and merged.
C28_PhasesSequential ==
    [][\A c \in ConnIds, side \in {"i", "r"} :
          LET tags == NewTags(c, side) IN
          /\ ("PEERS" \in Range(tags) \/ "MSGS_HAVE" \in Range(tags)) =>
                /\ tags = <<"PEERS", "MSGS_HAVE">>
                /\ Pc(conns[c], side) \in {"rd_welcome", "wr_welcome"}
                /\ Pc(conns'[c], side) = "rd_have"
          /\ "MSGS_REQ" \in Range(tags) =>
                /\ tags = <<"MSGS_REQ">>
                /\ HaveStep(c, side)
          /\ "MSGS_SEND" \in Range(tags) =>
                /\ tags = <<"MSGS_SEND">>
                /\ ReqStep(c, side)
          /\ Range(tags) \cap AnchorTags # {} =>
                side \in conns[c].done \/ MergeStep(c, side)
          /\ Pc(conns'[c], side) \in AnchorPcs =>
                side \in conns'[c].done]_vars

\* C28 witness: both ends of a connection between n1 and the anchor n2 have
\* merged the other's MSGS_SEND and n1's ANCHOR_PUSH is on the wire.
C28_Witness ==
    \E c \in ConnIds :
       /\ conns[c].ini = "n1" /\ conns[c].res = "n2"
       /\ conns[c].done = {"i", "r"}
       /\ conns[c].rpc = "rd_push"
       /\ conns[c].i2r # <<>>
       /\ conns[c].i2r[1].f.t = "ANCHOR_PUSH"

\* ----------------------------------------------------------------- SpecSelect
\* get_current_anchor as a pure function of the anchor records of a circle,
\* the previous selection and the clock.

\* anchor.ANCHOR_COOLDOWN_S (60 s), in clock ticks.
ANCHOR_COOLDOWN_S == 2
\* anchor.ANCHOR_STALENESS_S (20 s), in clock ticks.
ANCHOR_STALENESS_S == 1
\* The tiebreak (hash(node_id) % 2^32) / 2^32 takes HashSteps values in [0, 1).
HashSteps == 2

\* Optional[str] None.
NoAnchor == ""

\* _score_anchor, in units of 1 / HashSteps; `hashes` is hash() of this
\* process, which Python draws per process.
score_anchor(record, now_ts, hashes) ==
    IF now_ts - record.last_seen_ts > ANCHOR_STALENESS_S THEN -1
    ELSE HashSteps * ((IF record.public_reachable THEN 8 ELSE 0)
                      + (IF record.can_anchor THEN 4 ELSE 0)
                      + (IF ~record.is_mobile THEN 2 ELSE 0))
         + hashes[record.node_id]

\* list.sort(key=score, reverse=True): stable, the first of equal scores stays
\* first.
RECURSIVE SortByScoreDesc(_)
SortByScoreDesc(scored) ==
    IF scored = <<>> THEN <<>>
    ELSE LET best == CHOOSE k \in DOMAIN scored :
                        /\ \A j \in DOMAIN scored : scored[j][1] <= scored[k][1]
                        /\ \A j \in 1..(k - 1) : scored[j][1] < scored[k][1]
         IN <<scored[best]>>
              \o SortByScoreDesc([j \in 1..(Len(scored) - 1) |->
                                     IF j < best THEN scored[j] ELSE scored[j + 1]])

\* rank_anchor_candidates over the items of state.anchor_records[circle_id],
\* in the order of the dict; now_ts is its int(time.time()).
rank_anchor_candidates(circle_anchors, now_ts, hashes) ==
    LET usable == SelectSeq(circle_anchors,
                     LAMBDA record : /\ record.can_anchor
                                     /\ score_anchor(record, now_ts, hashes) >= 0)
        scored == [k \in DOMAIN usable |->
                     <<score_anchor(usable[k], now_ts, hashes), usable[k].node_id>>]
        sorted == SortByScoreDesc(scored)
    IN [k \in DOMAIN sorted |-> sorted[k][2]]

\* get_current_anchor without the cooldown: always the best candidate.
get_current_anchor_best(circle_anchors, current_anchor, current_anchor_ts, now_ts, now2, hashes) ==
    LET candidates == rank_anchor_candidates(circle_anchors, now_ts, hashes) IN
    IF candidates = <<>> THEN NoAnchor ELSE candidates[1]

\* get_current_anchor; now_ts is the clock read of the ranking, now2 the later
\* read of the function itself.
get_current_anchor(circle_anchors, current_anchor, current_anchor_ts, now_ts, now2, hashes) ==
    LET candidates == rank_anchor_candidates(circle_anchors, now_ts, hashes) IN
    IF candidates = <<>> THEN NoAnchor
    ELSE IF /\ current_anchor # NoAnchor
            /\ current_anchor \in Range(candidates)
            /\ now2 - current_anchor_ts < ANCHOR_COOLDOWN_S
    THEN current_anchor
    ELSE candidates[1]

SelectNodes == {"n2", "n3"}
SelectTimes == 0..2
SelectNow == {2, 3}

\* The capabilities (public_reachable, can_anchor, is_mobile) of the records.
SelectCaps == {<<TRUE, TRUE, FALSE>>, <<FALSE, TRUE, FALSE>>,
               <<FALSE, FALSE, FALSE>>, <<FALSE, TRUE, TRUE>>}

SelectRecords ==
    {AnchorRecord(n, caps[2], caps[1], caps[3], ts, ts) :
        n \in SelectNodes, caps \in SelectCaps, ts \in SelectTimes}

\* The items of an anchor_records dict: no record, one, or two of different
\* nodes in either order.
SelectDicts ==
    {<<>>} \cup {<<r>> : r \in SelectRecords}
           \cup {<<r, q>> : r \in {x \in SelectRecords : x.node_id = "n2"},
                            q \in {x \in SelectRecords : x.node_id = "n3"}}
           \cup {<<q, r>> : r \in {x \in SelectRecords : x.node_id = "n2"},
                            q \in {x \in SelectRecords : x.node_id = "n3"}}

InitSelect == InitJoined({})

GetCurrentAnchor(circle_anchors, current_anchor, current_anchor_ts, now_ts, now2, hashes) ==
    /\ call = NoCall
    /\ call' = [fn |-> "get_current_anchor", circle_anchors |-> circle_anchors,
                current_anchor |-> current_anchor,
                current_anchor_ts |-> current_anchor_ts,
                now_ts |-> now_ts, now2 |-> now2, hashes |-> hashes,
                result |-> get_current_anchor(circle_anchors, current_anchor,
                               current_anchor_ts, now_ts, now2, hashes)]
    /\ UNCHANGED <<state, now, lock, conns, anchor_store, anchor_pull_since, tui,
                   next_id, synced, pruned, unlocked, applied, seen_tokens, errors, skipped,
                   served, started, loop, relay>>

NextSelect ==
    /\ call = NoCall
    /\ \E circle_anchors \in SelectDicts,
          current_anchor \in {NoAnchor, "n1"} \cup SelectNodes,
          current_anchor_ts \in SelectTimes, now_ts \in SelectNow, later \in {0, 1},
          hashes \in [SelectNodes -> 0..(HashSteps - 1)] :
          GetCurrentAnchor(circle_anchors, current_anchor, current_anchor_ts,
                           now_ts, now_ts + later, hashes)

SpecSelect == InitSelect /\ [][NextSelect]_vars

\* The node ids of the valid candidates of a call: records with can_anchor
\* that are not stale at the clock read of the ranking.
ValidCandidates ==
    {call.circle_anchors[k].node_id : k \in
        {j \in DOMAIN call.circle_anchors :
            /\ call.circle_anchors[j].can_anchor
            /\ call.now_ts - call.circle_anchors[j].last_seen_ts <= ANCHOR_STALENESS_S}}

\* The record of a node in the call's dict.
RecordOf(node_id) ==
    call.circle_anchors[CHOOSE k \in DOMAIN call.circle_anchors :
                           call.circle_anchors[k].node_id = node_id]

\* C26 - get_current_anchor returns no node whose record is stale or lacks
\* can_anchor; it returns the previous anchor when that is still a valid
\* candidate and was selected less than ANCHOR_COOLDOWN_S ago; otherwise a
\* valid candidate of the highest score, or none when there is no valid
\* candidate.
C26_AnchorSelection ==
    call.fn = "get_current_anchor" =>
       /\ call.result # NoAnchor => call.result \in ValidCandidates
       /\ IF ValidCandidates = {} THEN call.result = NoAnchor
          ELSE IF /\ call.current_anchor \in ValidCandidates
                  /\ call.now2 - call.current_anchor_ts < ANCHOR_COOLDOWN_S
          THEN call.result = call.current_anchor
          ELSE /\ call.result \in ValidCandidates
               /\ \A v \in ValidCandidates :
                     score_anchor(RecordOf(v), call.now_ts, call.hashes)
                        <= score_anchor(RecordOf(call.result), call.now_ts, call.hashes)

\* C26 witness: the previous anchor n3 is kept inside the cooldown although the
\* valid candidate n2 scores higher.
C26_Witness ==
    /\ call.fn = "get_current_anchor"
    /\ call.current_anchor = "n3"
    /\ call.result = "n3"
    /\ ValidCandidates = {"n2", "n3"}
    /\ score_anchor(RecordOf("n2"), call.now_ts, call.hashes)
          > score_anchor(RecordOf("n3"), call.now_ts, call.hashes)

\* ------------------------------------------------------------------- SpecLoop
\* GossipNode.gossip_loop and GossipNode.stop.

\* The slice peers[:5] of gossip_loop, scaled.
GOSSIP_FANOUT == 2
\* The rounds between two ANCHOR_ANNOUNCE broadcasts (12), scaled.
ANNOUNCE_EVERY == 2
\* Rounds a loop starts in one behaviour.
MaxRounds == 2

\* The host listening at an address; none for an address nobody listens at.
HostAt(addr) ==
    CASE addr = "n1:p" -> "n1"
      [] addr = "n2:p" -> "n2"
      [] addr = "n3:p" -> "n3"
      [] addr = "adv:p" -> ADV
      [] OTHER -> ""

\* list(self.state.circles.keys())
CircleList(s) ==
    CHOOSE q \in [1..Cardinality(DOMAIN s.circles) -> DOMAIN s.circles] :
        Range(q) = DOMAIN s.circles

\* No slice: every known peer of the circle.
top_peers_all(addrs) ==
    addrs

\* peers[:5]
top_peers(addrs) ==
    SubSeq(addrs, 1, IF Len(addrs) < GOSSIP_FANOUT THEN Len(addrs) ELSE GOSSIP_FANOUT)

\* The tasks of n that are running on a connection.
InFlight(n) ==
    {t \in ConnIds \X {"i", "r"} :
        /\ NodeOf(conns[t[1]], t[2]) = n
        /\ Pc(conns[t[1]], t[2]) \notin {"idle", "closed"}}

\* GossipNode.stop: set the stop event (at_stop keeps the tasks then running).
Stop(n) ==
    /\ loop[n].pc # "off"
    /\ ~loop[n].stop
    /\ loop' = [loop EXCEPT ![n].stop = TRUE, ![n].at_stop = InFlight(n)]
    /\ UNCHANGED <<relay, call, state, now, lock, conns, anchor_store,
                   anchor_pull_since, served, started, tui, next_id, synced, pruned,
                   unlocked, applied, seen_tokens, errors, skipped>>

\* wait_for(stop.wait(), timeout) returns because the event is set: break.
L_Break(n) ==
    /\ loop[n].pc = "wait"
    /\ loop[n].stop
    /\ loop' = [loop EXCEPT ![n].pc = "returned"]
    /\ UNCHANGED <<relay, call, state, now, lock, conns, anchor_store,
                   anchor_pull_since, served, started, tui, next_id, synced, pruned,
                   unlocked, applied, seen_tokens, errors, skipped>>

\* The wait times out: a round starts with the list of circles, read under
\* the lock.
L_Round(n) ==
    /\ loop[n].pc = "wait"
    /\ ~loop[n].stop
    /\ loop[n].round < MaxRounds
    /\ lock[n] = NoTask
    /\ loop' = [loop EXCEPT ![n].pc = "circles", ![n].round = @ + 1,
                            ![n].circles = CircleList(state[n])]
    /\ UNCHANGED <<relay, call, state, now, lock, conns, anchor_store,
                   anchor_pull_since, served, started, tui, next_id, synced, pruned,
                   unlocked, applied, seen_tokens, errors, skipped>>

\* `for cid in circles`: the addresses of the known peers of the next circle,
\* read under the lock.
L_Circle(n) ==
    LET cid == Head(loop[n].circles)
        known == known_peers_for_circle(state[n], cid)
        addrs == [k \in DOMAIN known |-> known[k].addr]
    IN
    /\ loop[n].pc = "circles"
    /\ loop[n].circles # <<>>
    /\ lock[n] = NoTask
    /\ loop' = [loop EXCEPT ![n].pc = "peers", ![n].cid = cid,
                            ![n].circles = Tail(@),
                            ![n].peers = top_peers(addrs),
                            ![n].snap = state[n], ![n].dialled = <<>>]
    /\ UNCHANGED <<relay, call, state, now, lock, conns, anchor_store,
                   anchor_pull_since, served, started, tui, next_id, synced, pruned,
                   unlocked, applied, seen_tokens, errors, skipped>>

\* `for addr in peers[:5]: await connect_and_sync(addr, cid)`, up to the first
\* read of connect_and_sync; a circle that was left and an address nobody
\* listens at end the call at once.
L_Dial(n) ==
    LET addr == Head(loop[n].peers)
        host == HostAt(addr)
    IN
    /\ loop[n].pc = "peers"
    /\ loop[n].peers # <<>>
    /\ IF loop[n].cid \notin DOMAIN state[n].circles
       THEN /\ loop' = [loop EXCEPT ![n].peers = Tail(@)]
            /\ UNCHANGED <<conns, started, relay, call, state, now, lock,
                           anchor_store, anchor_pull_since, served, tui, next_id,
                           synced, pruned, unlocked, applied, seen_tokens, errors, skipped>>
       ELSE IF host = ""
       THEN /\ loop' = [loop EXCEPT ![n].peers = Tail(@),
                                    ![n].dialled = Append(@, addr)]
            /\ UNCHANGED <<conns, started, relay, call, state, now, lock,
                           anchor_store, anchor_pull_since, served, tui, next_id,
                           synced, pruned, unlocked, applied, seen_tokens, errors, skipped>>
       ELSE \E c \in ConnIds :
               /\ DialFrom(c, n, host, loop[n].cid)
               /\ loop' = [loop EXCEPT ![n].pc = "dial", ![n].conn = c,
                                       ![n].peers = Tail(@),
                                       ![n].dialled = Append(@, addr),
                                       ![n].mine = @ \cup {c}]

\* connect_and_sync has returned: its writer is closed.
L_Joined(n) ==
    /\ loop[n].pc = "dial"
    /\ conns[loop[n].conn].ipc = "closed"
    /\ loop' = [loop EXCEPT ![n].pc = "peers", ![n].conn = 0]
    /\ UNCHANGED <<relay, call, state, now, lock, conns, anchor_store,
                   anchor_pull_since, served, started, tui, next_id, synced, pruned,
                   unlocked, applied, seen_tokens, errors, skipped>>

\* The peers of a circle are done: the next circle.
L_NextCircle(n) ==
    /\ loop[n].pc = "peers"
    /\ loop[n].peers = <<>>
    /\ loop' = [loop EXCEPT ![n].pc = "circles"]
    /\ UNCHANGED <<relay, call, state, now, lock, conns, anchor_store,
                   anchor_pull_since, served, started, tui, next_id, synced, pruned,
                   unlocked, applied, seen_tokens, errors, skipped>>

\* The ANCHOR_ANNOUNCE messages of the node, one per circle, each stored under
\* a fresh msg_id.
RECURSIVE announce_all(_, _, _, _)
announce_all(s, circle_ids, msg_id, now_ts) ==
    IF circle_ids = <<>> THEN s
    ELSE LET cid == Head(circle_ids)
             event == [NoText EXCEPT !.t = "ANCHOR_ANNOUNCE",
                                     !.node_id = s.node.node_id,
                                     !.can_anchor = s.node.can_anchor,
                                     !.public_reachable = s.node.public_reachable,
                                     !.is_mobile = s.node.is_mobile,
                                     !.announced_at = now_ts]
             s1 == [s EXCEPT !.messages =
                      Append(@, make_control_message(s, cid, msg_id, event, now_ts))]
         IN announce_all(s1, Tail(circle_ids), msg_id + 1, now_ts)

\* The end of a round: count it, every ANNOUNCE_EVERY rounds an anchor stores
\* its announcements and saves, and the loop tests the stop event.
L_RoundEnd(n) ==
    LET counter == loop[n].counter + 1
        announce == state[n].node.can_anchor /\ counter % ANNOUNCE_EVERY = 0
        circle_ids == CircleList(state[n])
        s1 == announce_all(state[n], circle_ids, next_id + 1, now[n])
    IN
    /\ loop[n].pc = "circles"
    /\ loop[n].circles = <<>>
    /\ loop' = [loop EXCEPT ![n].counter = counter,
                            ![n].pc = IF loop[n].stop THEN "returned" ELSE "wait"]
    /\ IF announce
       THEN /\ lock[n] = NoTask
            /\ next_id + Len(circle_ids) <= MaxMsgs
            /\ state' = [state EXCEPT ![n] = Saved(n, s1)]
            /\ pruned' = pruned \cup Dropped(n, s1)
            /\ next_id' = next_id + Len(circle_ids)
       ELSE UNCHANGED <<state, pruned, next_id>>
    /\ UNCHANGED <<relay, call, now, lock, conns, anchor_store, anchor_pull_since,
                   served, started, tui, synced, unlocked, applied, seen_tokens, errors,
                   skipped>>

\* n1 is in the circles c1 and c2 and knows three members of c1: n2 (seen at
\* 2), n3 (seen at 1) and the member on ADV (seen at 0); its gossip loop runs.
\* n2 may dial n1 at any time.
InitLoop ==
    /\ state = [n \in Nodes |->
         IF n = "n1"
         THEN [with_circle(with_circle(DefaultState(n, FALSE), "s1", 0), "s2", 0)
                 EXCEPT !.peers = Put(Put(Put(EmptyDict,
                                    "n2", Peer("n2", "n2:p", 2)),
                                    "n3", Peer("n3", "n3:p", 1)),
                                    ADV, Peer(ADV, "adv:p", 0)),
                        !.circle_members["c1"] = {"n1", "n2", "n3", ADV}]
         ELSE with_circle(DefaultState(n, FALSE), "s1", 0)]
    /\ now = [n \in Nodes |-> 0]
    /\ lock = [n \in Nodes |-> NoTask]
    /\ conns = [c \in ConnIds |-> FreshConn]
    /\ anchor_store = [n \in Nodes |-> EmptyDict]
    /\ anchor_pull_since = [n \in Nodes |-> EmptyDict]
    /\ tui = [n \in Nodes |-> Screen("c1", "general")]
    /\ next_id = 0
    /\ synced = {}
    /\ pruned = {}
    /\ unlocked = {}
    /\ applied = [n \in Nodes |-> EmptyDict]
    /\ seen_tokens = {}
    /\ skipped = {}
    /\ served = EmptyDict
    /\ started = EmptyDict
    /\ loop = [n \in Nodes |-> IF n = "n1" THEN [LoopIdle EXCEPT !.pc = "wait"]
                               ELSE LoopIdle]
    /\ relay = RelayOff
    /\ call = NoCall
    /\ errors = EmptyDict

NextLoop ==
    \/ Stop("n1")
    \/ L_Break("n1")
    \/ L_Round("n1")
    \/ L_Circle("n1")
    \/ L_Dial("n1")
    \/ L_Joined("n1")
    \/ L_NextCircle("n1")
    \/ L_RoundEnd("n1")
    \/ \E c \in ConnIds : Dial(c, "n2", "n1", "c1")
    \/ \E c \in ConnIds : R_Hello(c)
    \/ \E c \in ConnIds : I_Challenge(c)
    \/ \E c \in ConnIds : R_Auth(c)
    \/ \E c \in ConnIds : R_SyncStart(c)
    \/ \E c \in ConnIds : I_Welcome(c)
    \/ \E c \in ConnIds, side \in {"i", "r"} : S_Have(c, side)
    \/ \E c \in ConnIds, side \in {"i", "r"} : S_Req(c, side)
    \/ \E c \in ConnIds, side \in {"i", "r"} : S_Send(c, side)

SpecLoop == InitLoop /\ [][NextLoop]_vars

\* ------------------------------------------------------------ claims: SpecLoop

\* The peers of circle cid a node knew when its loop read them.
KnownAt(s, cid) ==
    {s.peers[pid] : pid \in {m \in Get(s.circle_members, cid, {}) : m \in DOMAIN s.peers}}

\* The connections the loop of n has dialled and whose connect_and_sync has
\* not returned.
LoopOpen(n) ==
    {c \in loop[n].mine : conns[c].ini = n /\ conns[c].ipc \notin {"idle", "closed"}}

\* C25 - In a round and for a circle the loop dials at most GOSSIP_FANOUT
\* peers, each among the known members of the circle with the greatest
\* last_seen, one after another: at most one connect_and_sync of the loop is
\* running at any time, and none while the loop is between dials.
C25_DialTopPeers ==
    \A n \in Nodes :
       loop[n].pc # "off" =>
          /\ Len(loop[n].dialled) <= GOSSIP_FANOUT
          /\ \A k \in DOMAIN loop[n].dialled :
                \E p \in KnownAt(loop[n].snap, loop[n].cid) :
                   /\ p.addr = loop[n].dialled[k]
                   /\ Cardinality({q \in KnownAt(loop[n].snap, loop[n].cid) :
                                      q.last_seen > p.last_seen}) < GOSSIP_FANOUT
          /\ Cardinality(LoopOpen(n)) <= 1
          /\ loop[n].pc # "dial" => LoopOpen(n) = {}

\* C25 witness: in one round n1 has dialled n2 and then n3 for c1, the
\* second connection is open, and the member on ADV was left out.
C25_Witness ==
    /\ loop["n1"].pc = "dial"
    /\ loop["n1"].cid = "c1"
    /\ loop["n1"].dialled = <<"n2:p", "n3:p">>
    /\ conns[loop["n1"].conn].res = "n3"
    /\ Cardinality(KnownAt(loop["n1"].snap, "c1")) = 3

\* C24, the loop alone: once stop is set no round starts.
C24_NoNewRound ==
    [][\A n \in Nodes : loop[n].stop => loop'[n].round = loop[n].round]_vars

\* C24 - After stop() no round starts, and a task of the node that was in
\* flight on a connection when stop() was called does nothing more than close
\* its writer: the next step it takes ends it and writes no frame.
C24_StopObserved ==
    [][\A n \in Nodes :
          loop[n].stop =>
             /\ loop'[n].round = loop[n].round
             /\ \A c \in ConnIds, side \in {"i", "r"} :
                   (/\ <<c, side>> \in loop[n].at_stop
                    /\ NodeOf(conns[c], side) = n
                    /\ Pc(conns[c], side) \notin {"idle", "closed"}
                    /\ Pc(conns'[c], side) # Pc(conns[c], side))
                      => /\ Pc(conns'[c], side) = "closed"
                         /\ NewFrames(c, side) = <<>>]_vars

\* A task of _handle_conn at n1 that was in flight at stop() has gone on to
\* merge the dialler's MSGS_SEND.
C24_ServedAfterStop ==
    \E c \in ConnIds :
       /\ loop["n1"].stop
       /\ <<c, "r">> \in loop["n1"].at_stop
       /\ conns[c].res = "n1"
       /\ "r" \in conns[c].done

\* ------------------------------------------------------------------ SpecRelay
\* The message routes of the relay server (api/relay_ws.py): POST and GET
\* /v1/messages over the table relay_messages, and the cleanup task.

\* The 30 days a relayed message is kept, in ticks of the relay's clock.
RELAY_TTL_S == 2
\* The most messages one POST may carry (50).
RELAY_POST_MAX == 3
\* The limit of a GET that names none (200).
RELAY_PULL_DEFAULT == 2
\* The greatest limit of a GET (500).
RELAY_PULL_MAX == 3
\* The relay's clock runs from 1 to MaxRelayClock.
MaxRelayClock == 3

\* No request of a node is being handled; no response is outstanding.
NoReq == [busy |-> FALSE]
NoResp == [t |-> "none"]
\* A query parameter that is absent.
Absent == -1

\* A circle hint of fewer than 8 characters.
ShortHint == "h"

\* A message dict of a POST body; msg_id 0 stands for a msg_id that is no
\* string of 8 to 64 characters.
RelayMsg(msg_id, created_ts) == [msg_id |-> msg_id, created_ts |-> created_ts]

\* The bodies a node pushes. n1: one message, a list with an invalid entry
\* after a valid one, a list that is too long, a hint that is too short and a
\* message of another circle hint. n2: two messages, and n1's message again
\* together with one of its own.
PostBodies(n) ==
    IF n = "n1"
    THEN { [circle_hint |-> "hint-one", messages |-> <<RelayMsg(1, 0)>>],
           [circle_hint |-> "hint-one", messages |-> <<RelayMsg(3, 0), RelayMsg(0, 0)>>],
           [circle_hint |-> "hint-one",
            messages |-> <<RelayMsg(1, 0), RelayMsg(1, 0), RelayMsg(1, 0), RelayMsg(1, 0)>>],
           [circle_hint |-> ShortHint, messages |-> <<RelayMsg(1, 0)>>],
           [circle_hint |-> "hint-two", messages |-> <<RelayMsg(4, 5)>>] }
    ELSE { [circle_hint |-> "hint-one", messages |-> <<RelayMsg(2, 9), RelayMsg(3, 0)>>],
           [circle_hint |-> "hint-one", messages |-> <<RelayMsg(1, 0), RelayMsg(2, 9)>>] }

\* The nodes that push.
Pushers == {"n1", "n2"}

\* A row of relay_messages; the payload is the message dict.
Row(msg, circle_hint, stored_at) ==
    [msg_id |-> msg.msg_id, circle_hint |-> circle_hint, payload |-> msg,
     created_ts |-> msg.created_ts, stored_at |-> stored_at,
     expires_at |-> stored_at + RELAY_TTL_S]

\* A plain INSERT into a table without the primary key.
insert_always(rows, row) ==
    rows \cup {row}

\* INSERT OR IGNORE: msg_id is the primary key.
insert_or_ignore(rows, row) ==
    IF \E r \in rows : r.msg_id = row.msg_id THEN rows ELSE rows \cup {row}

\* r sorts before q in ORDER BY stored_at ASC, msg_id ASC.
RowBefore(r, q) ==
    \/ r.stored_at < q.stored_at
    \/ r.stored_at = q.stored_at /\ r.msg_id < q.msg_id

\* SELECT payload ... WHERE circle_hint = ? AND stored_at > ? AND expires_at > ?
\* ORDER BY stored_at ASC, msg_id ASC LIMIT ?
select_messages(rows, circle_hint, since, now_ts, limit) ==
    LET hit == {r \in rows : /\ r.circle_hint = circle_hint
                             /\ r.stored_at > since
                             /\ r.expires_at > now_ts}
        some == CHOOSE q \in [1..Cardinality(hit) -> hit] : Range(q) = hit
        sorted == SortSeq(some, RowBefore)
    IN [k \in 1..(IF Len(sorted) < limit THEN Len(sorted) ELSE limit) |->
          sorted[k].payload]

\* min(max(int(limit_raw) if limit_raw.isdigit() else 200, 1), 500)
pull_limit(limit_raw) ==
    LET asked == IF limit_raw = Absent THEN RELAY_PULL_DEFAULT ELSE limit_raw
        floor == IF asked < 1 THEN 1 ELSE asked
    IN IF floor > RELAY_PULL_MAX THEN RELAY_PULL_MAX ELSE floor

\* The relay after every step that is not a GET: the last response is gone.
Served(r) == [r EXCEPT !.resp = NoResp]

\* route_messages_post up to its first INSERT: the body is checked and the
\* clock is read once.
P_Begin(n, body) ==
    /\ relay.on
    /\ ~relay.reqs[n].busy
    /\ IF body.circle_hint = ShortHint \/ Len(body.messages) > RELAY_POST_MAX
       THEN relay' = Served(relay)
       ELSE relay' = [Served(relay) EXCEPT
               !.reqs[n] = [busy |-> TRUE, circle_hint |-> body.circle_hint,
                            messages |-> body.messages, next |-> 1,
                            now |-> relay.now]]
    /\ UNCHANGED <<loop, call, state, now, lock, conns, anchor_store,
                   anchor_pull_since, served, started, tui, next_id, synced, pruned,
                   unlocked, applied, seen_tokens, errors, skipped>>

\* One pass of its loop: check the next message and insert it, or return the
\* error, leaving what was inserted; after the last message commit and answer.
P_Insert(n) ==
    LET req == relay.reqs[n]
        msg == req.messages[req.next]
        rows == insert_or_ignore(relay.rows, Row(msg, req.circle_hint, req.now))
    IN
    /\ relay.on
    /\ req.busy
    /\ IF req.next > Len(req.messages)
       THEN relay' = [Served(relay) EXCEPT !.reqs[n] = NoReq]
       ELSE IF msg.msg_id = 0 \/ msg.created_ts < 0
       THEN relay' = [Served(relay) EXCEPT !.reqs[n] = NoReq]
       ELSE relay' = [Served(relay) EXCEPT !.rows = rows, !.reqs[n].next = @ + 1]
    /\ UNCHANGED <<loop, call, state, now, lock, conns, anchor_store,
                   anchor_pull_since, served, started, tui, next_id, synced, pruned,
                   unlocked, applied, seen_tokens, errors, skipped>>

\* route_messages_get
G_Get(circle_hint, since_raw, limit_raw) ==
    LET since == IF since_raw = Absent THEN 0 ELSE since_raw
        limit == pull_limit(limit_raw)
    IN
    /\ relay.on
    /\ relay.resp = NoResp
    /\ relay' = [relay EXCEPT !.resp =
          IF circle_hint = ShortHint
          THEN [t |-> "error", circle_hint |-> circle_hint, since |-> since,
                limit_raw |-> limit_raw, messages |-> <<>>, server_time |-> 0]
          ELSE [t |-> "ok", circle_hint |-> circle_hint, since |-> since,
                limit_raw |-> limit_raw,
                messages |-> select_messages(relay.rows, circle_hint, since,
                                             relay.now, limit),
                server_time |-> relay.now]]
    /\ UNCHANGED <<loop, call, state, now, lock, conns, anchor_store,
                   anchor_pull_since, served, started, tui, next_id, synced, pruned,
                   unlocked, applied, seen_tokens, errors, skipped>>

\* _cleanup_task: DELETE FROM relay_messages WHERE expires_at <= now.
R_Cleanup ==
    /\ relay.on
    /\ relay' = [Served(relay) EXCEPT
          !.rows = {r \in relay.rows : r.expires_at > relay.now}]
    /\ UNCHANGED <<loop, call, state, now, lock, conns, anchor_store,
                   anchor_pull_since, served, started, tui, next_id, synced, pruned,
                   unlocked, applied, seen_tokens, errors, skipped>>

\* The relay's clock advances.
R_Tick ==
    /\ relay.on
    /\ relay.now < MaxRelayClock
    /\ relay' = [Served(relay) EXCEPT !.now = @ + 1]
    /\ UNCHANGED <<loop, call, state, now, lock, conns, anchor_store,
                   anchor_pull_since, served, started, tui, next_id, synced, pruned,
                   unlocked, applied, seen_tokens, errors, skipped>>

\* The relay has started with an empty table.
InitRelay ==
    /\ state = [n \in Nodes |-> with_circle(DefaultState(n, FALSE), "s1", 0)]
    /\ now = [n \in Nodes |-> 0]
    /\ lock = [n \in Nodes |-> NoTask]
    /\ conns = [c \in ConnIds |-> FreshConn]
    /\ anchor_store = [n \in Nodes |-> EmptyDict]
    /\ anchor_pull_since = [n \in Nodes |-> EmptyDict]
    /\ tui = [n \in Nodes |-> Screen("c1", "general")]
    /\ next_id = 0
    /\ synced = {}
    /\ pruned = {}
    /\ unlocked = {}
    /\ applied = [n \in Nodes |-> EmptyDict]
    /\ seen_tokens = {}
    /\ skipped = {}
    /\ served = EmptyDict
    /\ started = EmptyDict
    /\ loop = LoopOff
    /\ relay = [on |-> TRUE, now |-> 1, rows |-> {},
                reqs |-> [n \in Pushers |-> NoReq], resp |-> NoResp]
    /\ call = NoCall
    /\ errors = EmptyDict

NextRelay ==
    \/ \E n \in Pushers : \E body \in PostBodies(n) : P_Begin(n, body)
    \/ \E n \in Pushers : P_Insert(n)
    \/ \E circle_hint \in {"hint-one", ShortHint},
          since_raw \in {Absent, 1, 2}, limit_raw \in {Absent, 5} :
          G_Get(circle_hint, since_raw, limit_raw)
    \/ R_Cleanup
    \/ R_Tick

SpecRelay == InitRelay /\ [][NextRelay]_vars

\* ----------------------------------------------------------- claims: SpecRelay

\* The rows a GET with this hint and cursor is about: those of the hint stored
\* after `since` and not expired at the relay's clock. (A response is kept
\* only until the next step, so the table is the one the GET read.)
StoredAfter(circle_hint, since) ==
    {r \in relay.rows : /\ r.circle_hint = circle_hint
                        /\ r.stored_at > since
                        /\ r.expires_at > relay.now}

\* The msg_ids of a response, in order.
RespIds == [k \in DOMAIN relay.resp.messages |-> relay.resp.messages[k].msg_id]

\* C30 as stated - A GET that names no limit returns every unexpired message
\* of the circle hint stored after `since`, none stored at or before it, and
\* each once.
C30_CursorReturnsAll ==
    (relay.resp.t = "ok" /\ relay.resp.limit_raw = Absent) =>
       /\ Range(RespIds)
            = {r.msg_id : r \in StoredAfter(relay.resp.circle_hint, relay.resp.since)}
       /\ Cardinality(Range(RespIds)) = Len(RespIds)

\* The limit a GET runs with: the one it names, at least 1 and at most
\* RELAY_PULL_MAX, or RELAY_PULL_DEFAULT when it names none.
LimitOf(limit_raw) ==
    IF limit_raw = Absent THEN RELAY_PULL_DEFAULT
    ELSE IF limit_raw < 1 THEN 1
    ELSE IF limit_raw > RELAY_PULL_MAX THEN RELAY_PULL_MAX
    ELSE limit_raw

\* The row of a msg_id.
RowOf(msg_id) == CHOOSE r \in relay.rows : r.msg_id = msg_id

\* C30 - Relay cursor, up to the limit: a GET returns the first rows, in
\* (stored_at, msg_id) order, of the unexpired rows of the circle hint whose
\* stored_at is greater than `since`, as many as the limit allows and all of
\* them when they are no more than the limit; it returns no row stored at or
\* before `since`, whatever the created_ts of the payloads, and no msg_id
\* twice. The table holds one row per msg_id however often it was pushed,
\* with the stored_at of the push that inserted it, and a push that has
\* inserted a message leaves its row in the table.
C30_CursorReturnsFirst ==
    [][/\ \A r \in relay'.rows, q \in relay'.rows : r.msg_id = q.msg_id => r = q
       /\ \A n \in Pushers :
             (relay.reqs[n].busy /\ relay'.reqs[n].busy
                 /\ relay'.reqs[n].next > relay.reqs[n].next)
                => \E r \in relay'.rows :
                      r.msg_id = relay.reqs[n].messages[relay.reqs[n].next].msg_id
       /\ relay'.resp.t = "ok" =>
             LET resp == relay'.resp
                 hit == {r \in relay.rows : /\ r.circle_hint = resp.circle_hint
                                           /\ r.stored_at > resp.since
                                           /\ r.expires_at > relay.now}
                 ids == [k \in DOMAIN resp.messages |-> resp.messages[k].msg_id]
                 got == {r \in hit : r.msg_id \in Range(ids)}
             IN /\ Len(ids) = (IF Cardinality(hit) < LimitOf(resp.limit_raw)
                               THEN Cardinality(hit) ELSE LimitOf(resp.limit_raw))
                /\ Cardinality(Range(ids)) = Len(ids)
                /\ Cardinality(got) = Len(ids)
                /\ \A k \in DOMAIN ids :
                      \E r \in hit : r.msg_id = ids[k] /\ r.payload = resp.messages[k]
                /\ \A r \in got, q \in hit \ got : RowBefore(r, q)
                /\ \A k \in DOMAIN ids : \A j \in DOMAIN ids :
                      k < j => \E r \in got, q \in got :
                                  r.msg_id = ids[k] /\ q.msg_id = ids[j] /\ RowBefore(r, q)
                /\ resp.server_time = relay.now]_vars

\* C30 witness: with the cursor at 1 a GET without limit has returned the
\* two messages stored at 2, one with created_ts 0 and one with created_ts 9,
\* and not message 1, which was stored at 1 and is not expired.
C30_Witness ==
    /\ relay.resp.t = "ok"
    /\ relay.resp.limit_raw = Absent
    /\ relay.resp.since = 1
    /\ RespIds = <<2, 3>>
    /\ relay.resp.messages[1].created_ts = 9
    /\ \E r \in relay.rows : /\ r.msg_id = 1 /\ r.circle_hint = "hint-one"
                             /\ r.stored_at = 1 /\ r.expires_at > relay.now

\* ------------------------------------------------------------------ SpecCircle

\* A message of the circle c2 that a member of c1 has signed with the secret
\* of c1.
ForeignPost ==
    Signed("s1", ChatMessage(4, "c2", "general", ADV, "eve", 0, PlainText("yo")))

\* The msg_ids of the member's MSGS_HAVE: none, or n1's post in c1, n1's post
\* in c2 and an id n1 does not hold.
HaveSets == {{}, {1, 3, 9}}

\* The frames of a member of c1 that runs other software on the host ADV, at
\* either end of a connection for c1: it asks for n1's posts of both circles
\* and sends a message of c2, alone or ahead of its own post in c1, also
\* in a frame that names c2.
CircleBursts(c) ==
    LET rec == conns[c]
        pc == IF rec.ini = ADV THEN rec.rpc ELSE rec.ipc
    IN
    CASE pc = "rd_challenge" -> {<<Wire(<<>>, Challenge(<<"sn", c>>))>>}
      [] pc = "rd_auth" ->
           {<<Wire(<<>>, HelloAuth(make_token("s1", ADV, "c1", rec.server_nonce)))>>}
      [] pc = "rd_welcome" -> {<<Wire(<<>>, Welcome(ADV, FALSE, FALSE))>>}
      [] pc = "rd_have" ->
           {<<Wire(<<>>, PeersFrame("c1", <<>>)), Wire(<<>>, MsgsHave("c1", ids))>> :
               ids \in HaveSets}
      [] pc = "rd_req" -> {<<Wire(<<>>, MsgsReq("c1", msg_ids))>> : msg_ids \in ReqLists}
      [] pc = "rd_send" ->
           {<<Wire(<<>>, MsgsSend("c1", <<>>))>>,
            <<Wire(<<>>, MsgsSend("c1", <<ForeignPost>>))>>,
            <<Wire(<<>>, MsgsSend("c2", <<ForeignPost>>))>>,
            <<Wire(<<>>, MsgsSend("c1", <<ForeignPost, PeerPost>>))>>}
      [] OTHER -> {}

\* n1 is a member of the circles c1 and c2 and has posted once in each.
InitCircle == InitPeers

\* n1 and that member sync for c1, in either direction, one connection at a
\* time.
NextCircle ==
    \/ \E c \in ConnIds : OpenCount = 0 /\ Dial(c, "n1", ADV, "c1")
    \/ \E c \in ConnIds : OpenCount = 0 /\ AdvDial(c, "n1", ADV, "c1", "adv:p")
    \/ \E c \in ConnIds : \E burst \in CircleBursts(c) : AdvWrite(c, burst)
    \/ \E c \in ConnIds : R_Hello(c)
    \/ \E c \in ConnIds : I_Challenge(c)
    \/ \E c \in ConnIds : R_Auth(c)
    \/ \E c \in ConnIds : R_SyncStart(c)
    \/ \E c \in ConnIds : I_Welcome(c)
    \/ \E c \in ConnIds, side \in {"i", "r"} : S_Have(c, side)
    \/ \E c \in ConnIds, side \in {"i", "r"} : S_Req(c, side)
    \/ \E c \in ConnIds, side \in {"i", "r"} : S_Send(c, side)

SpecCircle == InitCircle /\ [][NextCircle]_vars

\* ---------------------------------------------------------- claims: SpecCircle

\* The ids of the messages of the store s whose circle_id is circle_id.
HeldIn(s, circle_id) ==
    {s.messages[k].msg_id : k \in {j \in DOMAIN s.messages :
                                      s.messages[j].circle_id = circle_id}}

\* C31 - The msg_ids a node puts in MSGS_REQ are exactly the ids of the
\* peer's MSGS_HAVE that are not in its own store for the circle when the
\* request is computed: the step that reads PEERS and MSGS_HAVE writes one
\* MSGS_REQ whose msg_ids, without repetition, are the advertised ids minus
\* the ids of the node's messages of that circle.
C31_RequestTheirsMinusMine ==
    [][\A c \in ConnIds, side \in {"i", "r"} :
          HaveStep(c, side) =>
             LET n == NodeOf(conns[c], side)
                 theirs == Inbound(conns[c], side)[2].f.msg_ids
                 out == NewFrames(c, side)
             IN /\ Len(out) = 1
                /\ out[1].f.t = "MSGS_REQ"
                /\ Range(out[1].f.msg_ids) = theirs \ HeldIn(state'[n], conns[c].circle_id)
                /\ Len(out[1].f.msg_ids) = Cardinality(Range(out[1].f.msg_ids))]_vars

\* C31 witness: n1, which holds the post 1 in c1 and the post 3 in c2, was
\* offered the ids 1, 3 and 9 for c1 and has asked for 3 and 9.
C31_Witness ==
    \E c \in ConnIds, side \in {"i", "r"} :
       /\ NodeOf(conns[c], side) = "n1"
       /\ Pc(conns[c], side) = "rd_req"
       /\ Outbound(conns[c], side) # <<>>
       /\ Outbound(conns[c], side)[Len(Outbound(conns[c], side))].f
             = MsgsReq("c1", <<3, 9>>)
       /\ HeldIn(state["n1"], "c1") = {1}
       /\ HeldIn(state["n1"], "c2") = {3}

\* C37 - Circle isolation on a connection: on a connection authenticated for
\* the circle C, every MSGS_HAVE a node writes names only ids of messages it
\* holds with circle_id C, every MSGS_SEND it writes carries only messages
\* with circle_id C (whatever ids the peer asked for), and the step that
\* merges a MSGS_SEND stores only messages with circle_id C.
C37_CircleIsolation ==
    [][\A c \in ConnIds, side \in {"i", "r"} :
          LET n == NodeOf(conns[c], side)
              out == NewFrames(c, side)
              circle_id == conns'[c].circle_id
          IN /\ \A k \in DOMAIN out :
                   /\ out[k].f.t = "MSGS_HAVE" =>
                         out[k].f.msg_ids \subseteq HeldIn(state'[n], circle_id)
                   /\ out[k].f.t = "MSGS_SEND" =>
                         \A j \in DOMAIN out[k].f.messages :
                            /\ out[k].f.messages[j].circle_id = conns[c].circle_id
                            /\ out[k].f.messages[j] \in Range(state[n].messages)
             /\ MergeStep(c, side) =>
                   \A m \in Range(state'[n].messages) \ Range(state[n].messages) :
                      m.circle_id = conns[c].circle_id]_vars

\* C37 witness: on a connection for c1, n1 has merged a MSGS_SEND that
\* carried a message of c2 ahead of the member's post in c1 (the only frame
\* with that post): it refused the first, stored the second, and its own
\* post in c2 is still held.
C37_Witness ==
    /\ <<"n1", "refused">> \in skipped
    /\ HeldIn(state["n1"], "c1") = {1, 2}
    /\ HeldIn(state["n1"], "c2") = {3}
    /\ ~HasMsg(state["n1"].messages, 4)

\* --------------------------------------------------------------------- SpecTag

\* As InitFail, with the history of the errors each connection ended with.
InitTag ==
    /\ state = [n \in Nodes |->
         IF n = "n1"
         THEN [with_circle(DefaultState(n, FALSE), "s1", 0)
                 EXCEPT !.messages = <<FirstPost>>]
         ELSE with_circle(DefaultState(n, n = "n2"), "s1", 0)]
    /\ now = [n \in Nodes |-> 0]
    /\ lock = [n \in Nodes |-> NoTask]
    /\ conns = [c \in ConnIds |-> FreshConn]
    /\ anchor_store = [n \in Nodes |-> EmptyDict]
    /\ anchor_pull_since = [n \in Nodes |-> EmptyDict]
    /\ tui = [n \in Nodes |-> [Screen("c1", "general") EXCEPT
                                 !.seen = IF n = "n1" THEN {1} ELSE {}]]
    /\ next_id = 1
    /\ synced = {}
    /\ pruned = {}
    /\ unlocked = {}
    /\ applied = [n \in Nodes |-> EmptyDict]
    /\ seen_tokens = {}
    /\ skipped = {}
    /\ served = EmptyDict
    /\ started = [c \in ConnIds |-> NotStarted]
    /\ loop = LoopOff
    /\ relay = RelayOff
    /\ call = NoCall
    /\ errors = [c \in ConnIds |-> {}]

\* The steps of SpecFail: n1 dials n2 and the member on ADV, that member dials
\* n2; at each stage the member sends the expected frame, a frame of another
\* tag or a line that is not a frame; reads time out, ADV closes.
NextTag ==
    \/ \E c \in ConnIds : OpenCount = 0 /\ Dial(c, "n1", "n2", "c1")
    \/ \E c \in ConnIds : OpenCount = 0 /\ Dial(c, "n1", ADV, "c1")
    \/ \E c \in ConnIds : OpenCount = 0 /\ AdvDial(c, "n2", ADV, "c1", "adv:p")
    \/ \E c \in ConnIds : \E burst \in PeerBursts(c) : AdvWrite(c, burst)
    \/ \E c \in ConnIds : AdvClose(c)
    \/ \E c \in ConnIds : R_Hello(c)
    \/ \E c \in ConnIds : I_Challenge(c)
    \/ \E c \in ConnIds : R_Auth(c)
    \/ \E c \in ConnIds : R_SyncStart(c)
    \/ \E c \in ConnIds : I_Welcome(c)
    \/ \E c \in ConnIds, side \in {"i", "r"} : S_Have(c, side)
    \/ \E c \in ConnIds, side \in {"i", "r"} : S_Req(c, side)
    \/ \E c \in ConnIds, side \in {"i", "r"} : S_Send(c, side)
    \/ \E c \in ConnIds : A_ServePush(c)
    \/ \E c \in ConnIds : A_ServePull(c)
    \/ \E c \in ConnIds : A_PushAck(c)
    \/ \E c \in ConnIds : A_Msgs(c)
    \/ \E c \in ConnIds, side \in {"i", "r"} : A_Timeout(c, side)
    \/ \E c \in ConnIds, side \in {"i", "r"} : ReadTimeout(c, side)
    \/ \E c \in ConnIds, side \in {"i", "r"} : ReadEOF(c, side)

SpecTag == InitTag /\ [][NextTag]_vars

\* ------------------------------------------------------------- claims: SpecTag

\* The tag the task at a reading position of the handshake or the sync
\* compares the frame with (for phase 2, see WrongTagStep).
ExpectedTag(pc) ==
    CASE pc = "rd_hello" -> "HELLO"
      [] pc = "rd_auth" -> "HELLO_AUTH"
      [] pc = "rd_challenge" -> "CHALLENGE"
      [] pc = "rd_welcome" -> "WELCOME"
      [] pc = "rd_req" -> "MSGS_REQ"
      [] pc = "rd_send" -> "MSGS_SEND"
      [] OTHER -> ""

\* The step in which the task at `side` of c takes from its queue a frame
\* that parses and carries another tag than the expected one; in phase 2, two
\* frames of which the first is not PEERS or the second is not MSGS_HAVE.
WrongTagStep(c, side) ==
    LET rec == conns[c]
        in == Inbound(rec, side)
        key == IF Pc(rec, side) \in {"rd_have", "rd_req", "rd_send"}
               THEN KeyOf(rec, side) ELSE <<>>
    IN
    /\ NodeOf(rec, side) \in Nodes
    /\ \/ /\ ExpectedTag(Pc(rec, side)) # ""
          /\ in # <<>>
          /\ Readable(in[1], key)
          /\ in[1].f.t # ExpectedTag(Pc(rec, side))
          /\ Inbound(conns'[c], side) = SubSeq(in, 2, Len(in))
             \/ conns'[c] = ClosedConn
       \/ /\ Pc(rec, side) = "rd_have"
          /\ Len(in) >= 2
          /\ Readable(in[1], key) /\ Readable(in[2], key)
          /\ in[1].f.t # "PEERS" \/ in[2].f.t # "MSGS_HAVE"
          /\ Inbound(conns'[c], side) = SubSeq(in, 3, Len(in))
             \/ conns'[c] = ClosedConn

\* The step in which the task at `side` of c stores messages it has read
\* from c: the merge of phase 6 or of the pulled anchor envelopes.
StoreStep(c, side) ==
    /\ Pc(conns[c], side) \in {"rd_send", "rd_anchor_msgs"}
    /\ Pc(conns'[c], side) # Pc(conns[c], side)
    /\ ~WrongTagStep(c, side)

\* C32 - A frame of the handshake or the sync phases with another tag than
\* the one expected at that point ends the protocol on the connection: the
\* step that reads it leaves the state of the node as it was and ends the
\* task, an ended task stays ended, and a node's store grows only in a step
\* of a task that has not ended and reads the expected frame.
C32_UnexpectedTagEnds ==
    [][/\ \A c \in ConnIds, side \in {"i", "r"} :
             /\ WrongTagStep(c, side) =>
                   /\ Pc(conns'[c], side) = "closed"
                   /\ state' = state
                   /\ anchor_store' = anchor_store
             /\ Pc(conns[c], side) = "closed" => Pc(conns'[c], side) = "closed"
       /\ \A n \in Nodes :
             ~(MsgIdsOf(state'[n].messages) \subseteq MsgIdsOf(state[n].messages)) =>
                \E c \in ConnIds, side \in {"i", "r"} :
                   NodeOf(conns[c], side) = n /\ StoreStep(c, side)]_vars

\* C32 witness: the responder n2 asked the member on ADV for the post 2 and
\* then read a frame of another tag where it expected MSGS_SEND: the task
\* has ended, the connection is closed and n2 does not hold the post.
C32_Witness ==
    \E c \in ConnIds :
       /\ <<"r", "Expected MSGS_SEND">> \in errors[c]
       /\ started[c].r # <<>>
       /\ conns[c] = ClosedConn
       /\ ~HasMsg(state["n2"].messages, 2)

\* ---------------------------------------------------------------- SpecEnvelope

\* Another envelope under the msg_id of n1's first post, and the envelopes of
\* two posts of the member on ADV, created at 0 and at 1.
OtherEnvelope == [Envelope("s1", FirstPost) EXCEPT !.author_node_id = ADV]

LaterPost ==
    Signed("s1", ChatMessage(5, "c1", "general", ADV, "eve", 1, PlainText("yo")))

PushLists ==
    { <<OtherEnvelope>>,
      <<OtherEnvelope, Envelope("s1", FirstPost)>>,
      <<Envelope("s1", PeerPost), Envelope("s1", LaterPost)>> }

\* The frames of a member of c1 on the host ADV that dials the anchor n2,
\* offers and asks for nothing in the sync, pushes one of PushLists and pulls
\* from 0.
EnvelopeBursts(c) ==
    LET pc == conns[c].rpc IN
    CASE pc = "rd_auth" ->
           {<<Wire(<<>>, HelloAuth(make_token("s1", ADV, "c1", conns[c].server_nonce)))>>}
      [] pc = "rd_have" ->
           {<<Wire(<<>>, PeersFrame("c1", <<>>)), Wire(<<>>, MsgsHave("c1", {}))>>}
      [] pc = "rd_req" -> {<<Wire(<<>>, MsgsReq("c1", <<>>))>>}
      [] pc = "rd_send" -> {<<Wire(<<>>, MsgsSend("c1", <<>>))>>}
      [] pc = "rd_push" ->
           {<<Wire(<<>>, AnchorPush("c1", envelopes))>> : envelopes \in PushLists}
      [] pc = "rd_pull" -> {<<Wire(<<>>, AnchorPull("c1", 0))>>}
      [] OTHER -> {}

\* n1 has posted once; n2 is configured as anchor.
InitEnvelope == InitFail

\* n1 and the member on ADV dial n2, one connection at a time: each syncs,
\* pushes its envelopes and pulls; the clock of n2 advances.
NextEnvelope ==
    \/ \E c \in ConnIds : OpenCount = 0 /\ Dial(c, "n1", "n2", "c1")
    \/ \E c \in ConnIds : OpenCount = 0 /\ AdvDial(c, "n2", ADV, "c1", "adv:p")
    \/ \E c \in ConnIds : \E burst \in EnvelopeBursts(c) : AdvWrite(c, burst)
    \/ \E c \in ConnIds : R_Hello(c)
    \/ \E c \in ConnIds : I_Challenge(c)
    \/ \E c \in ConnIds : R_Auth(c)
    \/ \E c \in ConnIds : R_SyncStart(c)
    \/ \E c \in ConnIds : I_Welcome(c)
    \/ \E c \in ConnIds, side \in {"i", "r"} : S_Have(c, side)
    \/ \E c \in ConnIds, side \in {"i", "r"} : S_Req(c, side)
    \/ \E c \in ConnIds, side \in {"i", "r"} : S_Send(c, side)
    \/ \E c \in ConnIds : A_ServePush(c)
    \/ \E c \in ConnIds : A_ServePull(c)
    \/ \E c \in ConnIds : A_PushAck(c)
    \/ \E c \in ConnIds : A_Msgs(c)
    \/ Tick("n2")

SpecEnvelope == InitEnvelope /\ [][NextEnvelope]_vars

\* -------------------------------------------------------- claims: SpecEnvelope

\* The step in which the anchor at the responding end of c reads an
\* ANCHOR_PUSH and stores its envelopes.
PushStep(c) ==
    /\ conns[c].rpc = "rd_push"
    /\ conns[c].i2r # <<>>
    /\ Readable(Head(conns[c].i2r), conns[c].r_key)
    /\ Head(conns[c].i2r).f.t = "ANCHOR_PUSH"
    /\ conns'[c].rpc # "rd_push"

\* C33 - store_anchor_envelope is idempotent per (circle_id, msg_id): in any
\* step, an envelope held in a circle's anchor store is either dropped (by the
\* pruning) or held unchanged, whatever envelopes are pushed under its
\* msg_id; a store never holds two envelopes under one msg_id; and every
\* envelope of an ANCHOR_MSGS frame is the one held in the store.
C33_FirstEnvelopeKept ==
    [][/\ \A n \in Nodes : \A cid \in DOMAIN anchor_store'[n] :
             LET before == Get(anchor_store[n], cid, <<>>)
                 after == anchor_store'[n][cid]
             IN /\ \A i \in DOMAIN before : \A j \in DOMAIN after :
                      after[j].msg_id = before[i].msg_id => after[j] = before[i]
                /\ \A j, k \in DOMAIN after :
                      after[j].msg_id = after[k].msg_id => j = k
       /\ \A c \in ConnIds :
             \A k \in DOMAIN NewFrames(c, "r") :
                NewFrames(c, "r")[k].f.t = "ANCHOR_MSGS" =>
                   Range(NewFrames(c, "r")[k].f.envelopes) \subseteq
                      Range(Get(anchor_store[conns[c].res], conns[c].circle_id, <<>>))]_vars

\* C33 witness: the anchor n2 holds, under the msg_id of n1's first post, the
\* envelope the member on ADV pushed first; n1 has since pushed its own
\* envelope for that msg_id and has been acknowledged, and the store still
\* holds the first one and not n1's.
C33_Witness ==
    \E c \in ConnIds :
       /\ conns[c].ini = "n1" /\ conns[c].res = "n2"
       /\ conns[c].ipc = "rd_anchor_msgs"
       /\ Envelope("s1", FirstPost) \in Range(push_envelopes(state["n1"], "c1"))
       /\ OtherEnvelope \in Range(anchor_store["n2"]["c1"])
       /\ Envelope("s1", FirstPost) \notin Range(anchor_store["n2"]["c1"])

\* ---------------------------------------------------- claims: approve events

\* The pending join requests a node records for a channel.
RequestsOf(s, circle_id, channel_id) ==
    Get(Get(s.channel_requests, circle_id, EmptyDict), channel_id, {})

\* C34 - An approve event moves a pending node: the merge that applies it
\* adds target_node_id to the member set of the channel only if the node has
\* a pending request for the channel, and then removes it from the pending
\* requests in the same step; for a node without a pending request the
\* member set stays as it was.
C34_ApproveMovesPending ==
    [][\A c \in ConnIds, side \in {"i", "r"} :
          MergeStep(c, side) =>
             \A e \in NewEvents(c, side) :
                LET n == NodeOf(conns[c], side)
                    circle_id == conns[c].circle_id
                    channel_id == Lower(e.channel_id)
                IN (/\ parse_channel_event(e)
                    /\ e.op = "approve"
                    /\ e.target_node_id # ""
                    /\ valid_channel_id(channel_id))
                      => IF e.target_node_id \in RequestsOf(state[n], circle_id, channel_id)
                         THEN /\ MembersOf(state'[n], circle_id, channel_id)
                                   = MembersOf(state[n], circle_id, channel_id)
                                        \cup {e.target_node_id}
                              /\ RequestsOf(state'[n], circle_id, channel_id)
                                   = RequestsOf(state[n], circle_id, channel_id)
                                        \ {e.target_node_id}
                         ELSE MembersOf(state'[n], circle_id, channel_id)
                                 = MembersOf(state[n], circle_id, channel_id)]_vars

\* n1 records n2 as a member of its invite channel #plan although it has
\* never recorded a request of n2.
C34_ApprovedWithoutRequest ==
    /\ "n2" \in MembersOf(state["n1"], "c1", "plan")
    /\ \A k \in DOMAIN state["n1"].messages :
          ~(/\ state["n1"].messages[k].channel_id = CONTROL_CHANNEL_ID
            /\ state["n1"].messages[k].text.op = "request"
            /\ state["n1"].messages[k].text.node_id = "n2")

\* ------------------------------------------------------------------- SpecOrder

\* The control messages of a member on the host ADV: n3 joins #plan, n3
\* leaves #plan, and the member creates #plan as an invite channel.
OrderMsgs ==
    { CtlBy(4, [NoText EXCEPT !.t = "CHANNEL_EVT", !.op = "join", !.channel_id = "plan",
                              !.node_id = "n3", !.actor_node_id = "n3"]),
      CtlBy(5, [NoText EXCEPT !.t = "CHANNEL_EVT", !.op = "leave", !.channel_id = "plan",
                              !.node_id = "n3", !.actor_node_id = "n3"]),
      CtlBy(6, [NoText EXCEPT !.t = "CHANNEL_EVT", !.op = "create", !.channel_id = "plan",
                              !.access_mode = "invite", !.actor_node_id = ADV,
                              !.created_by = ADV]) }

\* The frames of that member when it answers a dial: in MSGS_SEND, one of its
\* control messages or two of them in either order.
OrderBursts(c) ==
    LET pc == conns[c].ipc IN
    CASE pc = "rd_challenge" -> {<<Wire(<<>>, Challenge(<<"sn", c>>))>>}
      [] pc = "rd_welcome" -> {<<Wire(<<>>, Welcome(ADV, FALSE, FALSE))>>}
      [] pc = "rd_have" ->
           {<<Wire(<<>>, PeersFrame("c1", <<>>)), Wire(<<>>, MsgsHave("c1", {}))>>}
      [] pc = "rd_req" -> {<<Wire(<<>>, MsgsReq("c1", <<>>))>>}
      [] pc = "rd_send" ->
           {<<Wire(<<>>, MsgsSend("c1", <<m>>))>> : m \in OrderMsgs}
           \cup {<<Wire(<<>>, MsgsSend("c1", <<p[1], p[2]>>))>> :
                    p \in {q \in OrderMsgs \X OrderMsgs : q[1] # q[2]}}
      [] OTHER -> {}

\* The members n1 and n2 of c1 have no messages.
InitOrder == InitCtl

\* n1 and n2 sync with the member on ADV, and n2 with n1, one connection at a
\* time.
NextOrder ==
    \/ \E c \in ConnIds : OpenCount = 0 /\ Dial(c, "n1", ADV, "c1")
    \/ \E c \in ConnIds : OpenCount = 0 /\ Dial(c, "n2", ADV, "c1")
    \/ \E c \in ConnIds : OpenCount = 0 /\ Dial(c, "n2", "n1", "c1")
    \/ \E c \in ConnIds : \E burst \in OrderBursts(c) : AdvWrite(c, burst)
    \/ \E c \in ConnIds : R_Hello(c)
    \/ \E c \in ConnIds : I_Challenge(c)
    \/ \E c \in ConnIds : R_Auth(c)
    \/ \E c \in ConnIds : R_SyncStart(c)
    \/ \E c \in ConnIds : I_Welcome(c)
    \/ \E c \in ConnIds, side \in {"i", "r"} : S_Have(c, side)
    \/ \E c \in ConnIds, side \in {"i", "r"} : S_Req(c, side)
    \/ \E c \in ConnIds, side \in {"i", "r"} : S_Send(c, side)

SpecOrder == InitOrder /\ [][NextOrder]_vars

\* ----------------------------------------------------------- claims: SpecOrder

\* The __control messages of the circle a node has merged.
ControlOf(s, circle_id) ==
    {m \in Range(s.messages) :
        m.circle_id = circle_id /\ m.channel_id = CONTROL_CHANNEL_ID}

\* What a node derives from them for the channels other than #general (which
\* every node installs for itself): created_by and access_mode, the members
\* and the pending requests of each channel, and the display names of the
\* other nodes.
ChannelView(s, circle_id) ==
    LET ids == DOMAIN s.channels[circle_id] \ {"general"} IN
    <<[ch \in ids |-> <<s.channels[circle_id][ch].created_by,
                       s.channels[circle_id][ch].access_mode>>],
      [ch \in DOMAIN s.channel_members[circle_id] \ {"general"} |->
          s.channel_members[circle_id][ch]],
      [ch \in DOMAIN s.channel_requests[circle_id] \ {"general"} |->
          s.channel_requests[circle_id][ch]],
      [p \in DOMAIN s.node_display_names \ Nodes |-> s.node_display_names[p]]>>

\* C35 - Order independence of control events: two nodes of a circle that
\* have merged the same set of __control messages hold the same channel table
\* (created_by, access_mode), the same member and pending-request sets per
\* channel and the same display name per node.
C35_OrderIndependent ==
    \A n, m \in {"n1", "n2"} :
       ControlOf(state[n], "c1") = ControlOf(state[m], "c1")
          => ChannelView(state[n], "c1") = ChannelView(state[m], "c1")

\* n1 and n2 hold the same two control messages, n3's join and n3's leave of
\* #plan, and n3 is a member of #plan for one of them only.
C35_DivergedMembers ==
    /\ ControlOf(state["n1"], "c1") = ControlOf(state["n2"], "c1")
    /\ Cardinality(ControlOf(state["n1"], "c1")) = 2
    /\ "n3" \in MembersOf(state["n1"], "c1", "plan")
    /\ "n3" \notin MembersOf(state["n2"], "c1", "plan")

\* ------------------------------------------------------ claims: own peer record

\* C36 - A node never records itself as a peer and never dials itself: in
\* every reachable state the node's own node_id is not a key of state.peers,
\* and no connection has the same node at both ends.
C36_NoSelfPeer ==
    /\ \A n \in Nodes : n \notin DOMAIN state[n].peers
    /\ \A c \in ConnIds : conns[c].ini \in Nodes => conns[c].res # conns[c].ini

\* The loop of n1 has dialled n1's own address.
C36_SelfDial ==
    \E c \in ConnIds :
       /\ conns[c].ini = "n1" /\ conns[c].res = "n1"
       /\ "n1" \in DOMAIN state["n1"].peers

\* ------------------------------------------------------------------- SpecLeave

\* sorted(state.circles.keys())[0] of the circles c1 and c2.
FirstCircle(circles) ==
    IF "c1" \in DOMAIN circles THEN "c1"
    ELSE IF "c2" \in DOMAIN circles THEN "c2"
    ELSE ""

\* `/circle leave` of the TUI: pop the circle from circles, circle_members,
\* channels, channel_members and channel_requests, delete its messages,
\* save_state, and show the first remaining circle. It takes no lock.
CircleLeave(n) ==
    LET cid == tui[n].circle
        s1 == [state[n] EXCEPT
                 !.circles = Del(@, cid),
                 !.circle_members = Del(@, cid),
                 !.channels = Del(@, cid),
                 !.channel_members = Del(@, cid),
                 !.channel_requests = Del(@, cid),
                 !.messages = SelectSeq(@, LAMBDA m : m.circle_id # cid)]
        s2 == Saved(n, s1)
    IN
    /\ cid # ""
    /\ state' = [state EXCEPT ![n] = s2]
    /\ pruned' = pruned \cup Dropped(n, s1)
    /\ tui' = [tui EXCEPT ![n] = Screen(FirstCircle(s2.circles), "general")]
    /\ unlocked' = unlocked \cup {"_circle_mgmt_cmd"}
    /\ UNCHANGED <<loop, relay, call, now, lock, conns, anchor_store, anchor_pull_since,
                   served, started, next_id, synced, applied, seen_tokens, errors,
                   skipped>>

\* n1 is a member of c1 and c2 and has posted once in c1; n2 is a member of
\* c1 and holds a post of another member.
InitLeave ==
    /\ state = [n \in Nodes |->
         IF n = "n1"
         THEN [with_circle(with_circle(DefaultState(n, FALSE), "s1", 0), "s2", 0)
                 EXCEPT !.messages = <<FirstPost>>]
         ELSE IF n = "n2"
         THEN [with_circle(DefaultState(n, FALSE), "s1", 0)
                 EXCEPT !.messages = <<PeerPost>>]
         ELSE with_circle(DefaultState(n, FALSE), "s1", 0)]
    /\ now = [n \in Nodes |-> 0]
    /\ lock = [n \in Nodes |-> NoTask]
    /\ conns = [c \in ConnIds |-> FreshConn]
    /\ anchor_store = [n \in Nodes |-> EmptyDict]
    /\ anchor_pull_since = [n \in Nodes |-> EmptyDict]
    /\ tui = [n \in Nodes |-> [Screen("c1", "general") EXCEPT
                                 !.seen = IF n = "n1" THEN {1} ELSE {}]]
    /\ next_id = 2
    /\ synced = {}
    /\ pruned = {}
    /\ unlocked = {}
    /\ applied = [n \in Nodes |-> EmptyDict]
    /\ seen_tokens = {}
    /\ skipped = {}
    /\ served = EmptyDict
    /\ started = EmptyDict
    /\ loop = LoopOff
    /\ relay = RelayOff
    /\ call = NoCall
    /\ errors = EmptyDict

\* n1 and n2 sync over c1, one connection at a time, in either direction;
\* between the steps of a sync the user of n1 may post in the circle shown
\* and may leave it.
NextLeave ==
    \/ \E c \in ConnIds : OpenCount = 0 /\ Dial(c, "n1", "n2", "c1")
    \/ \E c \in ConnIds : OpenCount = 0 /\ Dial(c, "n2", "n1", "c1")
    \/ \E c \in ConnIds : R_Hello(c)
    \/ \E c \in ConnIds : I_Challenge(c)
    \/ \E c \in ConnIds : R_Auth(c)
    \/ \E c \in ConnIds : R_SyncStart(c)
    \/ \E c \in ConnIds : I_Welcome(c)
    \/ \E c \in ConnIds, side \in {"i", "r"} : S_Have(c, side)
    \/ \E c \in ConnIds, side \in {"i", "r"} : S_Req(c, side)
    \/ \E c \in ConnIds, side \in {"i", "r"} : S_Send(c, side)
    \/ SendMessage("n1", "hi")
    \/ CircleLeave("n1")

SpecLeave == InitLeave /\ [][NextLeave]_vars

\* ----------------------------------------------------------- claims: SpecLeave

\* C38 - Every message in a node's store belongs to a circle the node
\* currently holds, and circle_members has entries only for held circles,
\* after any interleaving of leave-circle with in-flight syncs and local
\* sends for that circle.
C38_OnlyHeldCircles ==
    \A n \in Nodes :
       /\ \A k \in DOMAIN state[n].messages :
             state[n].messages[k].circle_id \in DOMAIN state[n].circles
       /\ DOMAIN state[n].circle_members \subseteq DOMAIN state[n].circles

\* n1 has left c1 during a sync with n2 and the sync has ended: n1 holds no
\* message of c1 and again has a member set for c1.
C38_MembersOfLeftCircle ==
    /\ "c1" \notin DOMAIN state["n1"].circles
    /\ "c1" \in DOMAIN state["n1"].circle_members
    /\ "n2" \in state["n1"].circle_members["c1"]
    /\ HeldIn(state["n1"], "c1") = {}
    /\ OpenCount = 0

\* ----------------------------------------------------------- claims: pull cap

\* The envelopes of the ANCHOR_MSGS at the head of the puller's queue of c.
Delivered(c) == Range(Head(conns[c].r2i).f.envelopes)

\* C39 - Anchor pull loses nothing: an ANCHOR_MSGS carries at most
\* ANCHOR_PULL_LIMIT envelopes, and when the puller that reads it advances
\* its cursor of the circle to the returned server_time, every envelope of
\* the anchor's store for the circle with created_ts greater than the old
\* cursor is among the envelopes delivered.
C39_PullLosesNothing ==
    [][\A c \in ConnIds :
          PullReply(c) =>
             LET p == conns[c].ini
                 circle_id == conns[c].circle_id
                 old == Get(anchor_pull_since[p], circle_id, 0)
                 st == Get(anchor_store[conns[c].res], circle_id, <<>>)
             IN /\ Len(Head(conns[c].r2i).f.envelopes) <= ANCHOR_PULL_LIMIT
                /\ Get(anchor_pull_since'[p], circle_id, 0) # old =>
                      \A k \in DOMAIN st :
                         st[k].created_ts > old => st[k] \in Delivered(c)]_vars

\* n3 has pulled once from n2 and its cursor stands at the time of n2, whose
\* store still holds two envelopes created at that time, n1's first and
\* second post; n3 holds at most one of them.
C39_SkippedEnvelope ==
    /\ Get(anchor_pull_since["n3"], "c1", 0) = 1
    /\ {e.msg_id : e \in Range(Get(anchor_store["n2"], "c1", <<>>))} = {1, 2}
    /\ \A e \in Range(Get(anchor_store["n2"], "c1", <<>>)) : e.created_ts = 1
    /\ ~HasMsg(state["n3"].messages, 2)

\* -------------------------------------------------------------------- SpecLive

\* n1 and n2 sync over c1 in both directions, at most MaxOpen connections at
\* a time; n1 also dials n2 for c2, which n2 does not hold and refuses with
\* an ERROR written while it holds its lock.
NextLive ==
    \/ \E c \in ConnIds : Dial(c, "n1", "n2", "c1")
    \/ \E c \in ConnIds : Dial(c, "n2", "n1", "c1")
    \/ \E c \in ConnIds : Dial(c, "n1", "n2", "c2")
    \/ \E c \in ConnIds : R_Hello(c)
    \/ \E c \in ConnIds : R_ErrDone(c)
    \/ \E c \in ConnIds : I_Challenge(c)
    \/ \E c \in ConnIds : R_Auth(c)
    \/ \E c \in ConnIds : R_SyncStart(c)
    \/ \E c \in ConnIds : I_Welcome(c)
    \/ \E c \in ConnIds, side \in {"i", "r"} : S_Have(c, side)
    \/ \E c \in ConnIds, side \in {"i", "r"} : S_Req(c, side)
    \/ \E c \in ConnIds, side \in {"i", "r"} : S_Send(c, side)

SpecLive == InitLeave /\ [][NextLive]_vars

\* The event loop runs every task that is ready: a task whose frame has
\* arrived reads it, and a task that waits for the lock gets it once the
\* holders before it have left (asyncio.Lock wakes its waiters in order).
\* Nothing obliges a node to dial.
TasksRun ==
    \A c \in ConnIds :
       /\ WF_vars(R_Hello(c))
       /\ WF_vars(R_ErrDone(c))
       /\ WF_vars(I_Challenge(c))
       /\ WF_vars(R_Auth(c))
       /\ WF_vars(R_SyncStart(c))
       /\ WF_vars(I_Welcome(c))
       /\ \A side \in {"i", "r"} :
             /\ WF_vars(S_Have(c, side))
             /\ WF_vars(S_Req(c, side))
             /\ WF_vars(S_Send(c, side))

SpecLiveFair == SpecLive /\ TasksRun

\* ------------------------------------------------------------ claims: SpecLive

\* The step ends the task of one side of c.
Ends(c, side) ==
    /\ Pc(conns[c], side) \notin {"idle", "closed"}
    /\ Pc(conns'[c], side) = "closed"

\* The side has written PEERS, MSGS_HAVE, MSGS_REQ and MSGS_SEND, has read
\* the peer's PEERS, MSGS_HAVE and MSGS_REQ, and the peer's MSGS_SEND is the
\* frame it reads now.
LastRead(c, side) ==
    /\ Pc(conns[c], side) = "rd_send"
    /\ Inbound(conns[c], side) # <<>>
    /\ Readable(Head(Inbound(conns[c], side)), KeyOf(conns[c], side))
    /\ Head(Inbound(conns[c], side)).f.t = "MSGS_SEND"

\* C40 - Deadlock freedom of a sync: a connection two correct members of the
\* circle open over a reliable transport ends on both sides, and a side ends
\* only by reading the peer's MSGS_SEND after the handshake and the exchange
\* of PEERS, MSGS_HAVE and MSGS_REQ; no side waits for a frame the other
\* side will not send, also while other connections of the same nodes are
\* open and hold the lock.
C40_SyncTerminates ==
    /\ \A c \in ConnIds :
          (conns[c].circle_id = "c1" /\ Open(c)) ~> (conns[c] = ClosedConn)
    /\ [][\A c \in ConnIds, side \in {"i", "r"} :
             conns[c].circle_id = "c1" /\ Ends(c, side) => LastRead(c, side)]_vars

\* C40 witness: the dialler of a sync over c1 has ended after reading the
\* responder's MSGS_SEND; its own MSGS_SEND waits to be read by n2, whose
\* lock is held by the task of another connection.
C40_Witness ==
    \E c, d \in ConnIds :
       /\ conns[d].rpc = "wr_err"
       /\ lock["n2"] = Task(d, "r")
       /\ conns[c].circle_id = "c1"
       /\ conns[c].res = "n2"
       /\ conns[c].ipc = "closed"
       /\ "i" \in conns[c].done
       /\ LastRead(c, "r")

====
